---------------------------- MODULE Spec2Model ----------------------------
(***************************************************************************)
(* Structured-light 3D scanner: Gray-code pattern codec, capture           *)
(* hand-shake between the capture thread and the phone (SERVER_STATE),     *)
(* and the sequential 360-degree merge.                                    *)
(*                                                                         *)
(* The module holds several specifications over one set of variables:      *)
(*   SpecGray    get_gray_1d and the decoder's Gray-to-binary conversion   *)
(*   SpecDecode  generate_patterns / capture_scan frame list / gray_decode *)
(*   SpecMerge   merge_pro_360                                             *)
(*   SpecCapture trigger_capture, capture_scan, capture_calibration,       *)
(*               poll_command, upload_file, monitor_disconnect             *)
(* A specification leaves the variables of the others at their initial     *)
(* values.                                                                 *)
(***************************************************************************)
EXTENDS Integers, Sequences, FiniteSets, TLC

VARIABLES
    \* ---- SpecGray: one Gray code word through encode / decode
    n,              \* bit width handed to get_gray_1d
    v,              \* index into the generated sequence
    code,           \* get_gray_1d(n)[v], a string of '0'/'1'
    gray_val,       \* decode_sequence's accumulator
    gpc,            \* "input" | "encoded" | "combined" | "decoded" | "corner"
    corner_val,     \* load_calib_data.decode_seq's val at one corner
    \* ---- SpecDecode: one capture folder and its decode, observed at a pixel
    ext,            \* "bmp" (capture_scan) or "png" (capture_calibration)
    folder,         \* files on disk: file name -> index of the projected frame it shows
    files,          \* gray_decode's sorted file list
    px,             \* the observed camera pixel: the projector <<column, row>> it sees
    col_map,        \* decoded column at the pixel
    row_map,        \* decoded row at the pixel
    current_idx,    \* gray_decode's running file index
    dpc,            \* "start" | "captured" | "listed" | "decoded" | "error"
    \* ---- SpecMerge: merge_pro_360 on the clouds of one auto-scan session
    session,        \* [deg, turns] of do_auto_scan_sequence
    captured,       \* the .ply names of the session, in capture order
    disk_ply,       \* the input folder: .ply name -> points of the cloud
    voxel_size,     \* merge_pro_360's voxel_size
    ply_files,      \* sorted(glob("*.ply"))
    heap,           \* point-cloud objects: reference -> points
    pcds,           \* the list of loaded clouds (references)
    merged_cloud,   \* reference of the accumulator cloud (0: none yet)
    max_accum_T,    \* the accumulated 4x4 transform
    scan_i,         \* the loop variable i
    reg_log,        \* one record per registration performed
    out_file,       \* the cloud written to output_path, or <<"none">>
    mpc,            \* "start" | "loop" | "post" | "saved" | "error"
    \* ---- SpecCapture: SERVER_STATE, the capture thread and the phone
    command,        \* SERVER_STATE["command"]: "idle" | "capture"
    command_id,     \* SERVER_STATE["command_id"]: 0 is "", k the k-th uuid drawn
    last_image_path,        \* SERVER_STATE["last_image_path"]: <<>> is None
    upload_received_event,  \* SERVER_STATE["upload_received_event"] is set
    connected,      \* SERVER_STATE["connected"]
    elapsed,        \* more than 5.0 s have passed since SERVER_STATE["last_seen"]
    cpc,            \* capture thread: "idle" | "L93" | "L96" | "L98" | "L100" | "L103" | "L108"
    job,            \* the capture job: [id, kind, num_poses, pose, frame]; id counts the jobs
    disk,           \* the image files saved so far (paths)
    ppc,            \* phone / request handler: "idle" | "L45" | "L65" | "L70" | "L76"
    polled,         \* the "action" of the poll_command response being built ("none": no poll running)
    handled_id,     \* the last command id the phone has answered
    saved_in_call,  \* an upload was saved at save_path since trigger_capture began
    returned,       \* <<>>, or since trigger_capture returned: <<[path, result, saved]>>
    requested,      \* frames of the current job / pose for which "capture" was issued
    projector,      \* the projector window: "closed" | "open"
    auto_seq,       \* do_auto_scan_sequence: [turns, i, log]; i = 0 when none is running
    \* ---- SpecCalib: analyze_calibration, the pose prompt, calibrate_final
    calib_dir,      \* the pose folders on disk: pose number -> [white, board, n_files]
    available_poses,    \* analyze_calibration's sorted folder list
    user_input,     \* what the operator typed into the prompt: [all, picks]
    selected_poses, \* prompt_pose_selection's selected_poses
    pose_list,      \* the pose_list of the last load_calib_data call
    calib_data,     \* what that call returned: [obj_pts, cam_pts, proj_pts, valid_poses]
    calib_file,     \* the .mat file written by calibrate_final, or <<"none">>
    kpc,            \* "start" | "analyzed" | "selected" | "saved" | "cancelled" | "error"
    \* ---- SpecRecon: calibration artifact, validity mask, triangulation, PLY
    pipeline,       \* "sl_system" (generate_cloud) or "processing" (process_multi_ply)
    cam,            \* camera of the calibration: [fx, cx, w] (w: width of its images)
    scan,           \* the scan as seen by the camera, per pixel: [white, black, bgr, col]
    mat_file,       \* the .mat file: field name -> stored value (<<>>: no file)
    calib,          \* the calibration dictionary built from the loaded file
    valid_mask,     \* gray_decode's valid_mask, flattened
    c_map,          \* gray_decode's col_map, flattened
    texture,        \* cv2.imread(files[0]), one BGR triple per pixel
    plane_idx,      \* the indices used to look up wPlaneCol
    point_px,       \* for each returned point, the pixel it came from
    points,         \* P.T: per point [Oc, ray, t_num, t_den], the point Oc + ray * t
    colors,         \* C: per point the BGR triple
    ply_file,       \* the .ply file written: [header, body], or <<"none">>
    rpc,            \* "start" | "calibrated" | "loaded" | "decoded" | "reconstructed" | "saved" | "error"
    \* ---- SpecRays: the camera rays of calibrate_final and their use in reconstruct
    img_shape,      \* load_calib_data's img_shape: <<width, height>> of the calibration image
    ray_K,          \* the camera matrix K1: [fx, fy, cx, cy]
    ray_Nc,         \* the columns of Nc, one ray per pixel
    scan_mask,      \* the scan's validity mask, h rows of w booleans
    rays,           \* the rays reconstruct takes for the valid pixels, in order
    ypc,            \* "start" | "calibrated" | "reconstructed"
    \* ---- SpecPresence: poll_command and monitor_disconnect on the connection flag
    clock,          \* time.time(), in seconds
    presence,       \* SERVER_STATE's [connected, last_seen]
    poll_thread,    \* a poll_command request: [pc, current_time], pc "idle" | "L33" | "L37" | "L40"
    monitor_pc,     \* monitor_disconnect: "L84" (asleep) | "L87" | "L89" | "L93"
    \* ---- SpecTurntable: run_thread of do_auto_scan_sequence and the Arduino turntable
    ser,            \* self.arduino.ser is an open port
    run_thread,     \* [turns, i, pc]: pc "start" | "scan" | "rotate" | "wait" | "sleep" | "done"
    in_buffer,      \* the lines waiting in the serial input buffer, each with the rotation it reports
    turntable,      \* the rotations the board has been sent and has not finished, oldest first
    rotations,      \* number of rotate commands written so far
    last_wait,      \* the last wait_for_done: [result, line]; line 0 when it read no DONE
    tt_log,         \* what run_thread has done, in order
    \* ---- SpecGui: the button handlers of ScannerGUI and the worker threads they start
    gui_fields,     \* what the operator has selected: [merge, mpcp_calib, mpcp_input, tt_output]
    gui_clicks,     \* number of button handlers that have run
    workers,        \* per thread target: [pc, frame]; pc "none" | "run" | "wait" | "finished"
    after_queue,    \* callbacks handed to root.after and not yet run
    shown,          \* dialogs shown and exceptions raised by the handlers and workers
    started_jobs,   \* jobs whose handler has run with the job's inputs selected
    shared_state,   \* SERVER_STATE as the capture workers share it: [command, command_id, last_image_path]
    shared_event,   \* SERVER_STATE["upload_event"] is set
    answered        \* the command id the phone has answered last

grayVars == <<n, v, code, gray_val, gpc, corner_val>>
decVars == <<ext, folder, files, px, col_map, row_map, current_idx, dpc>>
mergeVars == <<session, captured, disk_ply, voxel_size, ply_files, heap, pcds,
               merged_cloud, max_accum_T, scan_i, reg_log, out_file, mpc>>
captureVars == <<command, command_id, last_image_path, upload_received_event,
                 connected, elapsed, cpc, job, disk, ppc, polled, handled_id,
                 saved_in_call, returned, requested, projector, auto_seq>>
calibVars == <<calib_dir, available_poses, user_input, selected_poses, pose_list,
               calib_data, calib_file, kpc>>
reconVars == <<pipeline, cam, scan, mat_file, calib, valid_mask, c_map, texture,
               plane_idx, point_px, points, colors, ply_file, rpc>>

rayVars == <<img_shape, ray_K, ray_Nc, scan_mask, rays, ypc>>

presenceVars == <<clock, presence, poll_thread, monitor_pc>>

tableVars == <<ser, run_thread, in_buffer, turntable, rotations, last_wait, tt_log>>

guiVars == <<gui_fields, gui_clicks, workers, after_queue, shown, started_jobs, shared_state, shared_event, answered>>

vars == <<n, v, code, gray_val, gpc, corner_val,
          ext, folder, files, px, col_map, row_map, current_idx, dpc,
          session, captured, disk_ply, voxel_size, ply_files, heap, pcds,
          merged_cloud, max_accum_T, scan_i, reg_log, out_file, mpc,
          command, command_id, last_image_path, upload_received_event,
          connected, elapsed, cpc, job, disk, ppc, polled, handled_id,
          saved_in_call, returned, requested, projector, auto_seq,
          calib_dir, available_poses, user_input, selected_poses, pose_list,
          calib_data, calib_file, kpc,
          pipeline, cam, scan, mat_file, calib, valid_mask, c_map, texture,
          plane_idx, point_px, points, colors, ply_file, rpc,
          img_shape, ray_K, ray_Nc, scan_mask, rays, ypc,
          clock, presence, poll_thread, monitor_pc,
          ser, run_thread, in_buffer, turntable, rotations, last_wait, tt_log,
          gui_fields, gui_clicks, workers, after_queue, shown, started_jobs, shared_state, shared_event, answered>>

\* What an action of one specification leaves alone.
exceptGray == <<decVars, mergeVars, captureVars, calibVars, reconVars, rayVars, presenceVars, tableVars, guiVars>>
exceptDecode == <<grayVars, mergeVars, captureVars, calibVars, reconVars, rayVars, presenceVars, tableVars, guiVars>>
exceptMerge == <<grayVars, decVars, captureVars, calibVars, reconVars, rayVars, presenceVars, tableVars, guiVars>>
exceptCapture == <<grayVars, decVars, mergeVars, calibVars, reconVars, rayVars, presenceVars, tableVars, guiVars>>
exceptCalib == <<grayVars, decVars, mergeVars, captureVars, reconVars, rayVars, presenceVars, tableVars, guiVars>>
exceptRecon == <<grayVars, decVars, mergeVars, captureVars, calibVars, rayVars, presenceVars, tableVars, guiVars>>
exceptRays == <<grayVars, decVars, mergeVars, captureVars, calibVars, reconVars, presenceVars, tableVars, guiVars>>
exceptPresence == <<grayVars, decVars, mergeVars, captureVars, calibVars, reconVars, rayVars, tableVars, guiVars>>
exceptTable == <<grayVars, decVars, mergeVars, captureVars, calibVars, reconVars, rayVars, presenceVars, guiVars>>
exceptGui == <<grayVars, decVars, mergeVars, captureVars, calibVars, reconVars, rayVars, presenceVars, tableVars>>

\* SERVER_STATE as the module is loaded, no capture job running, no files
ServerStart ==
    /\ command = "idle" /\ command_id = 0 /\ last_image_path = <<>>
    /\ upload_received_event = FALSE /\ connected = FALSE /\ elapsed = TRUE
    /\ cpc = "idle"
    /\ job = [id |-> 0, kind |-> "none", num_poses |-> 0, pose |-> 0, frame |-> 0]
    /\ disk = {} /\ ppc = "idle" /\ polled = "none"
    /\ handled_id = 0 /\ saved_in_call = FALSE /\ returned = <<>> /\ requested = <<>>
    /\ projector = "closed"
    /\ auto_seq = [turns |-> 0, i |-> 0, log |-> <<>>]

\* np.identity(4)
Identity4 == << <<1, 0, 0, 0>>, <<0, 1, 0, 0>>, <<0, 0, 1, 0>>, <<0, 0, 0, 1>> >>

\* A specification that does not use a group of variables leaves it here.
GrayIdle ==
    /\ n = 1 /\ v = 0 /\ code = <<>> /\ gray_val = 0 /\ gpc = "off"
    /\ corner_val = 0

DecodeIdle ==
    /\ ext = "bmp" /\ folder = <<>> /\ files = <<>> /\ px = <<0, 0>>
    /\ col_map = 0 /\ row_map = 0 /\ current_idx = 0 /\ dpc = "off"

MergeIdle ==
    /\ session = [deg |-> 0, turns |-> 0] /\ captured = <<>> /\ disk_ply = <<>>
    /\ voxel_size = 2 /\ ply_files = <<>> /\ heap = <<>> /\ pcds = <<>>
    /\ merged_cloud = 0 /\ max_accum_T = Identity4 /\ scan_i = 0
    /\ reg_log = <<>> /\ out_file = <<"none">> /\ mpc = "off"

CalibIdle ==
    /\ calib_dir = <<>> /\ available_poses = <<>>
    /\ user_input = [all |-> FALSE, picks |-> <<>>]
    /\ selected_poses = <<>> /\ pose_list = <<>>
    /\ calib_data = [obj_pts |-> <<>>, cam_pts |-> <<>>, proj_pts |-> <<>>, valid_poses |-> <<>>]
    /\ calib_file = <<"none">> /\ kpc = "off"

ReconIdle ==
    /\ pipeline = "sl_system" /\ cam = [fx |-> 1, cx |-> 0, w |-> 0] /\ scan = <<>>
    /\ mat_file = <<>> /\ calib = <<>> /\ valid_mask = <<>> /\ c_map = <<>>
    /\ texture = <<>> /\ plane_idx = <<>> /\ point_px = <<>> /\ points = <<>>
    /\ colors = <<>> /\ ply_file = <<"none">> /\ rpc = "off"

RaysIdle ==
    /\ img_shape = <<1, 1>> /\ ray_K = [fx |-> 1, fy |-> 1, cx |-> 0, cy |-> 0]
    /\ ray_Nc = <<>> /\ scan_mask = <<>> /\ rays = <<>> /\ ypc = "off"

PresenceIdle ==
    /\ clock = 0 /\ presence = [connected |-> FALSE, last_seen |-> 0]
    /\ poll_thread = [pc |-> "off", current_time |-> 0] /\ monitor_pc = "off"

TableIdle ==
    /\ ser = FALSE /\ run_thread = [turns |-> 0, i |-> 0, pc |-> "off"]
    /\ in_buffer = <<>> /\ turntable = <<>> /\ rotations = 0
    /\ last_wait = [result |-> FALSE, line |-> 0] /\ tt_log = <<>>

GuiIdle ==
    /\ gui_fields = <<>> /\ gui_clicks = 0 /\ workers = <<>> /\ after_queue = {}
    /\ shown = {} /\ started_jobs = {} /\ shared_state = <<>>
    /\ shared_event = FALSE /\ answered = 0

---------------------------------------------------------------------------
(* Integer helpers: numpy's bitwise operators on non-negative ints.        *)

RECURSIVE Pow2(_)
Pow2(k) == IF k = 0 THEN 1 ELSE 2 * Pow2(k - 1)

\* np.left_shift(x, k)
left_shift(x, k) == x * Pow2(k)

\* np.right_shift(x, k)
right_shift(x, k) == x \div Pow2(k)

RECURSIVE bitwise_or(_, _)
bitwise_or(a, b) ==
    IF a = 0 THEN b
    ELSE IF b = 0 THEN a
    ELSE (IF (a % 2) + (b % 2) > 0 THEN 1 ELSE 0)
         + 2 * bitwise_or(a \div 2, b \div 2)

RECURSIVE bitwise_xor(_, _)
bitwise_xor(a, b) ==
    IF a = 0 THEN b
    ELSE IF b = 0 THEN a
    ELSE (((a % 2) + (b % 2)) % 2) + 2 * bitwise_xor(a \div 2, b \div 2)

\* int(np.ceil(np.log2(x))) for x >= 1: the least k with 2^k >= x
RECURSIVE CeilLog2From(_, _)
CeilLog2From(x, k) == IF Pow2(k) >= x THEN k ELSE CeilLog2From(x, k + 1)

CeilLog2(x) == CeilLog2From(x, 0)

\* s[::-1]
Reverse(s) == [i \in 1..Len(s) |-> s[Len(s) + 1 - i]] \o <<>>

---------------------------------------------------------------------------
(* generate_patterns.get_gray_1d: the binary-reflected Gray sequence.      *)

\* Largest bit width explored by SpecGray (1920 columns need 11).
MaxBits == 11

\* (mutant) the second half not reversed: plain binary counting
ReflectPrefixNoReverse(prev) ==
    [i \in 1..Len(prev) |-> <<"0">> \o prev[i]]
    \o [i \in 1..Len(prev) |-> <<"1">> \o prev[i]]

\* ['0' + s for s in prev] + ['1' + s for s in prev[::-1]]
ReflectPrefix(prev) ==
    LET rev == Reverse(prev)
    IN  [i \in 1..Len(prev) |-> <<"0">> \o prev[i]]
        \o [i \in 1..Len(rev) |-> <<"1">> \o rev[i]]

RECURSIVE get_gray_1d(_)
get_gray_1d(k) ==
    IF k = 1 THEN << <<"0">>, <<"1">> >>
    ELSE ReflectPrefix(get_gray_1d(k - 1))

\* The sequences for every width in use, built once.
RECURSIVE GrayTableUpTo(_)
GrayTableUpTo(k) ==
    IF k = 0 THEN <<>> ELSE Append(GrayTableUpTo(k - 1), get_gray_1d(k))

GrayTable == GrayTableUpTo(MaxBits)

---------------------------------------------------------------------------
(* decode_sequence: bits OR-ed in at shift n_bits-1-b, then the            *)
(* Gray-to-binary XOR-downshift loop.                                      *)

\* (mutant) shift off by one: plane b at n_bits-b
BitShiftOffByOne(n_bits, b) == n_bits - b

\* the shift given to the bit of plane b (0-based) out of n_bits
BitShift(n_bits, b) == n_bits - 1 - b

\* the for-loop over the bit planes; bits[b+1] is plane b's bit (0 or 1)
RECURSIVE CombineBits(_, _, _, _)
CombineBits(bits, n_bits, b, acc) ==
    IF b >= Len(bits) \/ b >= n_bits THEN acc
    ELSE CombineBits(bits, n_bits, b + 1,
                     bitwise_or(acc, left_shift(bits[b + 1], BitShift(n_bits, b))))

\* while np.any(mask > 0): gray_val ^= mask; mask >>= 1
RECURSIVE XorDownshift(_, _)
XorDownshift(g, mask) ==
    IF mask > 0 THEN XorDownshift(bitwise_xor(g, mask), right_shift(mask, 1))
    ELSE g

\* (mutant) a single XOR with the shifted value instead of the loop
GrayToBinaryOnePass(g) == bitwise_xor(g, right_shift(g, 1))

\* mask = gray_val >> 1, then the loop
GrayToBinary(g) == XorDownshift(g, right_shift(g, 1))

\* '0'/'1' character of a code word read as the bit a camera pixel shows
CharBit(ch) == IF ch = "1" THEN 1 ELSE 0

---------------------------------------------------------------------------
(* Projected frames.  An image is kept by what it needs to say what a      *)
(* pixel shows: a flat image by its one value, a column pattern by its     *)
(* value per column (pat[:, c] is constant down the column), a row pattern *)
(* by its value per row.                                                   *)

SCREEN_WIDTH == 1920
SCREEN_HEIGHT == 1080
PROJ_VALUE == 200
D_SAMPLE_PROJ == 1

\* gray_decode(folder, n_cols=1920, n_rows=1080)
decode_n_cols == 1920
decode_n_rows == 1080

\* value of image img at row r, column c (0-based)
Pix(img, r, c) ==
    IF img.axis = "col" THEN img.line[c + 1]
    ELSE IF img.axis = "row" THEN img.line[r + 1]
    ELSE img.line[1]

\* one bit-plane image of generate_patterns: plane b (0-based) of the Gray
\* words, one word per column (or row); `size` columns (rows)
BitPlane(axis, gray, size, b) ==
    [axis |-> axis,
     line |-> [c \in 1..size |->
                 IF c - 1 < Len(gray) /\ gray[c][b + 1] = "1" THEN 1 ELSE 0] \o <<>>]

\* generate_patterns: P[0] the column planes, P[1] the row planes
generate_patterns ==
    LET width == SCREEN_WIDTH \div D_SAMPLE_PROJ
        height == SCREEN_HEIGHT \div D_SAMPLE_PROJ
        n_cols == CeilLog2(width)
        n_rows == CeilLog2(height)
        col_gray == get_gray_1d(n_cols)
        row_gray == get_gray_1d(n_rows)
    IN  << [b \in 1..n_cols |-> BitPlane("col", col_gray, width, b - 1)] \o <<>>,
           [b \in 1..n_rows |-> BitPlane("row", row_gray, height, b - 1)] \o <<>> >>

\* np.ones((SCREEN_HEIGHT, SCREEN_WIDTH)) * PROJ_VALUE and np.zeros(...)
white == [axis |-> "flat", line |-> <<PROJ_VALUE>>]
black == [axis |-> "flat", line |-> <<0>>]

\* (pat * PROJ_VALUE), brought to screen size by nearest-neighbour resize
PatImg(pat) ==
    LET size == IF pat.axis = "col" THEN SCREEN_WIDTH ELSE SCREEN_HEIGHT
    IN  [axis |-> pat.axis,
         line |-> [c \in 1..size |->
                     pat.line[((c - 1) \div D_SAMPLE_PROJ) + 1] * PROJ_VALUE] \o <<>>]

\* ((1 - pat) * PROJ_VALUE), resized the same way
InvImg(pat) ==
    LET size == IF pat.axis = "col" THEN SCREEN_WIDTH ELSE SCREEN_HEIGHT
    IN  [axis |-> pat.axis,
         line |-> [c \in 1..size |->
                     (1 - pat.line[((c - 1) \div D_SAMPLE_PROJ) + 1]) * PROJ_VALUE] \o <<>>]

\* decimal digits of a natural number, as character codes ('0' is 48)
RECURSIVE Digits(_)
Digits(k) == IF k < 10 THEN <<48 + k>> ELSE Digits(k \div 10) \o <<48 + (k % 10)>>

\* f"{idx:02d}": at least two digits, zero padded
Fmt02(idx) == IF idx < 10 THEN <<48>> \o Digits(idx) ELSE Digits(idx)

\* f"{idx:02d}.bmp" / f"{idx:02d}.png": the stem's characters and the extension
FrameName(idx, e) == [stem |-> Fmt02(idx), ext |-> e]

\* (mutant) the inverse appended before the pattern
PatternPairInverseFirst(pat, idx, e) ==
    << [fname |-> FrameName(idx, e), img |-> InvImg(pat)],
       [fname |-> FrameName(idx + 1, e), img |-> PatImg(pat)] >>

\* the pair of frames appended for one pattern
PatternPair(pat, idx, e) ==
    << [fname |-> FrameName(idx, e), img |-> PatImg(pat)],
       [fname |-> FrameName(idx + 1, e), img |-> InvImg(pat)] >>

\* for pat in P[j]: append pattern, idx+=1; append inverse, idx+=1
RECURSIVE ExpandPairs(_, _, _)
ExpandPairs(pats, idx, e) ==
    IF pats = <<>> THEN <<>>
    ELSE PatternPair(Head(pats), idx, e) \o ExpandPairs(Tail(pats), idx + 2, e)

\* the `patterns` list of capture_scan (e = "bmp") and capture_calibration
\* (e = "png"): white, black, then for j in range(2) the pairs of P[j]
PatternList(e) ==
    LET P == generate_patterns
    IN  << [fname |-> FrameName(1, e), img |-> white],
           [fname |-> FrameName(2, e), img |-> black] >>
        \o ExpandPairs(P[1], 3, e)
        \o ExpandPairs(P[2], 3 + 2 * Len(P[1]), e)

ScanPatterns == PatternList("bmp")
CalibPatterns == PatternList("png")

Patterns(e) == IF e = "bmp" THEN ScanPatterns ELSE CalibPatterns

---------------------------------------------------------------------------
(* gray_decode                                                             *)

\* Python's string order on two file names of one extension: the stems
\* followed by '.' (code 46), compared character by character
RECURSIVE LexLess(_, _)
LexLess(a, b) ==
    IF a = <<>> THEN b # <<>>
    ELSE IF b = <<>> THEN FALSE
    ELSE IF Head(a) # Head(b) THEN Head(a) < Head(b)
    ELSE LexLess(Tail(a), Tail(b))

NameLess(f, g) == LexLess(f.stem \o <<46>>, g.stem \o <<46>>)

\* sorted(names): each name at the place given by how many sort before it
Sorted(names) ==
    [i \in 1..Cardinality(names) |->
        CHOOSE f \in names : Cardinality({g \in names : NameLess(g, f)}) = i - 1] \o <<>>

\* sorted(glob("*.bmp")), and if that is empty sorted(glob("*.png"))
GlobSorted(dir) ==
    LET bmp == {f \in DOMAIN dir : f.ext = "bmp"}
        png == {f \in DOMAIN dir : f.ext = "png"}
    IN  IF bmp # {} THEN Sorted(bmp) ELSE Sorted(png)

\* what the camera pixel that sees projector column c, row r records of the
\* frame stored in file f (a noise-free capture)
Seen(dir, e, f, c, r) == Pix(Patterns(e)[dir[f]].img, r, c)

\* number of bit planes whose positive file decode_sequence reads from index
\* idx on: the loop stops (break) once current_idx >= len(files)
PlanesStarted(fs, idx, n_bits) ==
    LET left == IF Len(fs) > idx THEN (Len(fs) - idx + 1) \div 2 ELSE 0
    IN  IF left < n_bits THEN left ELSE n_bits

\* files[current_idx] of an inverse frame past the end of the list: IndexError
IndexError(fs, idx, n_bits) == idx + 2 * PlanesStarted(fs, idx, n_bits) > Len(fs)

\* bit[img_p > img_i] = 1 for the planes read, in reading order
PlaneBits(fs, dir, e, idx, n_bits, c, r) ==
    [b \in 1..PlanesStarted(fs, idx, n_bits) |->
        IF Seen(dir, e, fs[idx + 2 * (b - 1) + 1], c, r)
           > Seen(dir, e, fs[idx + 2 * (b - 1) + 2], c, r)
        THEN 1 ELSE 0] \o <<>>

\* decode_sequence(n_bits) at one pixel, from file index idx
decode_sequence(fs, dir, e, idx, n_bits, c, r) ==
    GrayToBinary(CombineBits(PlaneBits(fs, dir, e, idx, n_bits, c, r), n_bits, 0, 0))

---------------------------------------------------------------------------
(* SpecDecode: a folder is captured, listed and decoded; the decode is     *)
(* observed at one camera pixel.                                           *)

\* The observed pixels: every projector column and every projector row is
\* seen by one of them (a column plane does not depend on the row, nor a row
\* plane on the column).
Pixels == {<<c, c % SCREEN_HEIGHT>> : c \in 0..(SCREEN_WIDTH - 1)}

InitDecode ==
    /\ ext \in {"bmp", "png"}
    /\ folder = <<>>
    /\ files = <<>>
    /\ px = <<0, 0>>
    /\ col_map = 0
    /\ row_map = 0
    /\ current_idx = 0
    /\ dpc = "start"
    /\ GrayIdle
    /\ MergeIdle
    /\ ServerStart
    /\ CalibIdle
    /\ ReconIdle
    /\ RaysIdle
    /\ PresenceIdle
    /\ TableIdle
    /\ GuiIdle

\* capture_scan / one pose of capture_calibration: the frames of `patterns`
\* are captured in order; the capture ends after all of them, or after the
\* first k when frame k+1 times out
CaptureFrames ==
    /\ dpc = "start"
    /\ \E k \in 0..Len(Patterns(ext)) :
         folder' = [f \in {Patterns(ext)[i].fname : i \in 1..k} |->
                      CHOOSE i \in 1..k : Patterns(ext)[i].fname = f]
    /\ dpc' = "captured"
    /\ UNCHANGED <<ext, files, px, col_map, row_map, current_idx>>
    /\ UNCHANGED exceptDecode

\* gray_decode: the file list, and the check for at least 4 files
ListFiles ==
    /\ dpc = "captured"
    /\ files' = GlobSorted(folder)
    /\ dpc' = IF Len(files') < 4 THEN "error" ELSE "listed"
    /\ current_idx' = 2
    /\ UNCHANGED <<ext, folder, px, col_map, row_map>>
    /\ UNCHANGED exceptDecode

\* gray_decode: decode_sequence for the columns, then for the rows
DecodeMaps ==
    /\ dpc = "listed"
    /\ LET n_col_bits == CeilLog2(decode_n_cols)
           n_row_bits == CeilLog2(decode_n_rows)
           idx_rows == current_idx + 2 * PlanesStarted(files, current_idx, n_col_bits)
       IN  IF IndexError(files, current_idx, n_col_bits)
              \/ IndexError(files, idx_rows, n_row_bits)
           THEN /\ dpc' = "error"
                /\ UNCHANGED <<px, col_map, row_map, current_idx>>
           ELSE \E p \in Pixels :
                /\ px' = p
                /\ col_map' = decode_sequence(files, folder, ext, current_idx,
                                              n_col_bits, p[1], p[2])
                /\ row_map' = decode_sequence(files, folder, ext, idx_rows,
                                              n_row_bits, p[1], p[2])
                /\ current_idx' = idx_rows
                                  + 2 * PlanesStarted(files, idx_rows, n_row_bits)
                /\ dpc' = "decoded"
    /\ UNCHANGED <<ext, folder, files>>
    /\ UNCHANGED exceptDecode

NextDecode == CaptureFrames \/ ListFiles \/ DecodeMaps

SpecDecode == InitDecode /\ [][NextDecode]_vars

\* the whole `patterns` list was captured
FullCapture == Cardinality(DOMAIN folder) = Len(Patterns(ext))

\* C3: in a noise-free capture of the generated patterns, the pixel that sees
\* projector column c and row r decodes to column c and row r.
C3_DecodeExact ==
    (dpc = "decoded" /\ FullCapture) => (col_map = px[1] /\ row_map = px[2])

C3_Witness ==
    /\ dpc = "decoded" /\ FullCapture
    /\ px = <<1919, 839>> /\ col_map = 1919 /\ row_map = 839


\* C26: with 4 or more frame files decode_sequence reads no file index
\* past the end of the list: the only error gray_decode ends in is the
\* not-enough-images error of a list of fewer than 4 files.
C26_NoReadPastEnd ==
    dpc = "error" => Len(files) < 4

---------------------------------------------------------------------------
(* SpecGray                                                                *)

InitGray ==
    /\ n \in 1..MaxBits
    /\ v \in 0..(Pow2(n) - 1)
    /\ code = <<>>
    /\ gray_val = 0
    /\ corner_val = 0
    /\ gpc = "input"
    /\ DecodeIdle
    /\ MergeIdle
    /\ ServerStart
    /\ CalibIdle
    /\ ReconIdle
    /\ RaysIdle
    /\ PresenceIdle
    /\ TableIdle
    /\ GuiIdle

\* Gray-encode(v): entry v of the generated sequence
GrayEncode ==
    /\ gpc = "input"
    /\ code' = GrayTable[n][v + 1]
    /\ gpc' = "encoded"
    /\ UNCHANGED <<n, v, gray_val, corner_val>>
    /\ UNCHANGED exceptGray

\* decode_sequence's for-loop on the word's bits, MSB first
GrayCombine ==
    /\ gpc = "encoded"
    /\ gray_val' = CombineBits([i \in 1..Len(code) |-> CharBit(code[i])], n, 0, 0)
    /\ gpc' = "combined"
    /\ UNCHANGED <<n, v, code, corner_val>>
    /\ UNCHANGED exceptGray

\* decode_sequence's Gray-to-binary loop
GrayConvert ==
    /\ gpc = "combined"
    /\ gray_val' = GrayToBinary(gray_val)
    /\ gpc' = "decoded"
    /\ UNCHANGED <<n, v, code, corner_val>>
    /\ UNCHANGED exceptGray

\* (mutant) each bit weighted as it is read, without the running XOR
RECURSIVE decode_seq_plain(_, _, _, _, _)
decode_seq_plain(bits, n_bits, b, bin_code, acc) ==
    IF b >= n_bits THEN acc
    ELSE decode_seq_plain(bits, n_bits, b + 1, bits[b + 1],
                          acc + bits[b + 1] * Pow2(n_bits - 1 - b))

\* load_calib_data.decode_seq at one corner: bin_code is the bit of plane 0,
\* then bin_code XOR the bit; val += bin_code * 2**(n_bits - 1 - b)
RECURSIVE decode_seq(_, _, _, _, _)
decode_seq(bits, n_bits, b, bin_code, acc) ==
    IF b >= n_bits THEN acc
    ELSE LET code_b == IF b = 0 THEN bits[b + 1]
                       ELSE bitwise_xor(bin_code, bits[b + 1])
         IN  decode_seq(bits, n_bits, b + 1, code_b,
                        acc + code_b * Pow2(n_bits - 1 - b))

\* the same bit planes read at a chessboard corner by load_calib_data
CornerDecode ==
    /\ gpc = "decoded"
    /\ corner_val' = decode_seq([i \in 1..Len(code) |-> CharBit(code[i])], n, 0, 0, 0)
    /\ gpc' = "corner"
    /\ UNCHANGED <<n, v, code, gray_val>>
    /\ UNCHANGED exceptGray

NextGray == GrayEncode \/ GrayCombine \/ GrayConvert \/ CornerDecode

\* C4: for every n in 1..MaxBits and v in [0, 2^n), entry v of get_gray_1d(n),
\* read MSB first and run through the decoder's Gray-to-binary conversion,
\* comes back as v.
C4_GrayRoundTrip == gpc = "decoded" => gray_val = v

C4_Witness == gpc = "decoded" /\ n = 11 /\ v = 1919 /\ gray_val = 1919

\* number of positions at which two equally long words differ
DiffCount(a, b) == Cardinality({i \in 1..Len(a) : a[i] # b[i]})

\* C5: get_gray_1d(n) is a list of 2^n codes of n bits each, and every two
\* consecutive codes differ in exactly one bit position.
C5_AdjacentOneBit ==
    gpc = "encoded" =>
        /\ Len(GrayTable[n]) = Pow2(n)
        /\ Len(code) = n
        /\ \A i \in 1..Len(code) : code[i] \in {"0", "1"}
        /\ v + 1 < Pow2(n) =>
              /\ Len(GrayTable[n][v + 2]) = n
              /\ DiffCount(code, GrayTable[n][v + 2]) = 1

C5_Witness ==
    /\ gpc = "encoded" /\ n = 11 /\ v = 1023
    /\ DiffCount(code, GrayTable[n][v + 2]) = 1

\* C24: for every word of n bits, MSB first, decode_seq's running XOR gives
\* the integer decode_sequence gives by OR-with-shift and XOR-downshift.
C24_CornerDecodeAgrees == gpc = "corner" => corner_val = gray_val

C24_Witness ==
    /\ gpc = "corner" /\ n = 11 /\ v = 1365
    /\ code = <<"1", "1", "1", "1", "1", "1", "1", "1", "1", "1", "1">>
    /\ corner_val = 1365

SpecGray == InitGray /\ [][NextGray]_vars

\* every pixel of the image has value val
IsFlat(img, val) == \A k \in 1..Len(img.line) : img.line[k] = val

\* bit `plane` (0 the most significant of n_bits) of the binary-reflected
\* Gray code of k, in closed form: k XOR (k >> 1)
GrayBitOf(k, n_bits, plane) ==
    (bitwise_xor(k, right_shift(k, 1)) \div Pow2(n_bits - 1 - plane)) % 2

\* img lights exactly the lines (columns or rows) whose Gray code has bit
\* `plane` set
IsBitPlane(img, axis, size, n_bits, plane) ==
    /\ img.axis = axis
    /\ Len(img.line) = size
    /\ \A k \in 1..size : img.line[k] = PROJ_VALUE * GrayBitOf(k - 1, n_bits, plane)

\* inv is the logical inverse of img: lit where img is dark and dark where lit
IsInverseOf(inv, img) ==
    /\ inv.axis = img.axis
    /\ Len(inv.line) = Len(img.line)
    /\ \A k \in 1..Len(img.line) :
         /\ img.line[k] \in {0, PROJ_VALUE}
         /\ inv.line[k] = PROJ_VALUE - img.line[k]

\* white, black, then each column plane followed by its inverse, then each
\* row plane followed by its inverse
FrameListShape(L) ==
    LET nc == CeilLog2(SCREEN_WIDTH)
        nr == CeilLog2(SCREEN_HEIGHT)
    IN  /\ Len(L) = 2 + 2 * (nc + nr)
        /\ IsFlat(L[1].img, PROJ_VALUE)
        /\ IsFlat(L[2].img, 0)
        /\ \A b \in 1..nc :
             /\ IsBitPlane(L[2 + 2 * b - 1].img, "col", SCREEN_WIDTH, nc, b - 1)
             /\ IsInverseOf(L[2 + 2 * b].img, L[2 + 2 * b - 1].img)
        /\ \A b \in 1..nr :
             /\ IsBitPlane(L[2 + 2 * nc + 2 * b - 1].img, "row", SCREEN_HEIGHT, nr, b - 1)
             /\ IsInverseOf(L[2 + 2 * nc + 2 * b].img, L[2 + 2 * nc + 2 * b - 1].img)

ScanFramesShape == FrameListShape(ScanPatterns)
CalibFramesShape == FrameListShape(CalibPatterns)

\* C6: the frames projected for a scan or a calibration pose are white,
\* black, each column bit plane followed by its inverse, each row bit plane
\* followed by its inverse; they are 2 + 2*(ceil(log2 width) + ceil(log2
\* height)) frames, and the decoder consumes exactly that many files.
C6_FrameSequence ==
    (dpc \in {"captured", "listed", "decoded"} /\ FullCapture) =>
        /\ IF ext = "bmp" THEN ScanFramesShape ELSE CalibFramesShape
        /\ Cardinality(DOMAIN folder)
             = 2 + 2 * (CeilLog2(SCREEN_WIDTH) + CeilLog2(SCREEN_HEIGHT))
        /\ dpc = "decoded" => current_idx = Len(files)
        /\ dpc = "decoded" => current_idx = Cardinality(DOMAIN folder)

C6_Witness ==
    /\ dpc = "decoded" /\ FullCapture /\ ext = "png"
    /\ current_idx = 46 /\ Len(files) = 46

---------------------------------------------------------------------------
(* Point clouds (lists of points) and 4x4 homogeneous transforms.          *)

MatRow(A, B, r) ==
    << A[r][1] * B[1][1] + A[r][2] * B[2][1] + A[r][3] * B[3][1] + A[r][4] * B[4][1],
       A[r][1] * B[1][2] + A[r][2] * B[2][2] + A[r][3] * B[3][2] + A[r][4] * B[4][2],
       A[r][1] * B[1][3] + A[r][2] * B[2][3] + A[r][3] * B[3][3] + A[r][4] * B[4][3],
       A[r][1] * B[1][4] + A[r][2] * B[2][4] + A[r][3] * B[3][4] + A[r][4] * B[4][4] >>

\* np.dot(A, B)
MatMul(A, B) == << MatRow(A, B, 1), MatRow(A, B, 2), MatRow(A, B, 3), MatRow(A, B, 4) >>

\* a quarter turn about the z axis, and a shift by one along x
RotZ90 == << <<0, -1, 0, 0>>, <<1, 0, 0, 0>>, <<0, 0, 1, 0>>, <<0, 0, 0, 1>> >>
ShiftX1 == << <<1, 0, 0, 1>>, <<0, 1, 0, 0>>, <<0, 0, 1, 0>>, <<0, 0, 0, 1>> >>

\* the transforms a registration may come back with
Transforms == {Identity4, RotZ90, ShiftX1, MatMul(RotZ90, ShiftX1)}

TransformPoint(T, p) ==
    << T[1][1] * p[1] + T[1][2] * p[2] + T[1][3] * p[3] + T[1][4],
       T[2][1] * p[1] + T[2][2] * p[2] + T[2][3] * p[3] + T[2][4],
       T[3][1] * p[1] + T[3][2] * p[2] + T[3][3] * p[3] + T[3][4] >>

\* pcd.transform(T), as the new point list
TransformPoints(T, pts) == [k \in 1..Len(pts) |-> TransformPoint(T, pts[k])] \o <<>>

Voxel(p, vx) == << p[1] \div vx, p[2] \div vx, p[3] \div vx >>

\* pcd.voxel_down_sample(vx): one point per occupied voxel
RECURSIVE VoxelDownFrom(_, _, _, _)
VoxelDownFrom(pts, vx, k, seen) ==
    IF k > Len(pts) THEN <<>>
    ELSE IF Voxel(pts[k], vx) \in seen THEN VoxelDownFrom(pts, vx, k + 1, seen)
    ELSE <<pts[k]>> \o VoxelDownFrom(pts, vx, k + 1, seen \cup {Voxel(pts[k], vx)})

voxel_down_sample(pts, vx) == VoxelDownFrom(pts, vx, 1, {})

\* list without its k-th element (k = 0: the list itself)
DropAt(pts, k) ==
    IF k = 0 THEN pts ELSE SubSeq(pts, 1, k - 1) \o SubSeq(pts, k + 1, Len(pts))

\* (mutant) no copy: the same object under another name
AliasRef(src, fresh) == src

\* copy.deepcopy(obj): a fresh object
DeepCopyRef(src, fresh) == fresh

\* the heap with object ref holding pts (ref is an object of h or the next free one)
Store(h, ref, pts) ==
    IF ref \in DOMAIN h THEN [h EXCEPT ![ref] = pts] ELSE h \o <<pts>>

\* (mutant) the accumulator replaced by the local transform
AccumulateLocalOnly(acc, T_local) == T_local

\* max_accum_T = np.dot(max_accum_T, T_local)
Accumulate(acc, T_local) == MatMul(acc, T_local)

---------------------------------------------------------------------------
(* SpecMerge: an auto-scan session names its clouds, merge_pro_360 merges  *)
(* the folder.                                                             *)

\* Largest number of turns of a session explored.
MaxTurns == 3

\* degrees per rotation
Degs == {30, 45, 60}

VoxelSizes == {2, 3}

\* the point lists a scan may have produced
CloudChoices ==
    { << <<0, 0, 0>>, <<1, 0, 0>>, <<2, 1, 0>> >>,
      << <<0, 1, 0>>, <<3, 0, 1>> >> }

\* "deg_scan"
DegScan == <<100, 101, 103, 95, 115, 99, 97, 110>>

\* f"{base_name}_{int(current_angle)}deg_scan" + ".ply"; the base name is the
\* same for every cloud of a session and is left out
PlyName(angle) == [stem |-> Digits(angle) \o DegScan, ext |-> "ply"]

\* the names produced by turns i = 0..turns-1 at current_angle = i * deg
SessionNames(deg, turns) == [k \in 1..turns |-> PlyName((k - 1) * deg)] \o <<>>

InitMerge ==
    /\ \E deg \in Degs, turns \in 0..MaxTurns :
         /\ session = [deg |-> deg, turns |-> turns]
         /\ captured = SessionNames(deg, turns)
         /\ disk_ply \in [{SessionNames(deg, turns)[k] : k \in 1..turns} -> CloudChoices]
    /\ voxel_size \in VoxelSizes
    /\ ply_files = <<>>
    /\ heap = <<>>
    /\ pcds = <<>>
    /\ merged_cloud = 0
    /\ max_accum_T = Identity4
    /\ scan_i = 0
    /\ reg_log = <<>>
    /\ out_file = <<"none">>
    /\ mpc = "start"
    /\ GrayIdle
    /\ DecodeIdle
    /\ ServerStart
    /\ CalibIdle
    /\ ReconIdle
    /\ RaysIdle
    /\ PresenceIdle
    /\ TableIdle
    /\ GuiIdle

\* (mutant) only an empty folder is refused
TooFewCloudsOnlyEmpty(fs) == Len(fs) < 1

\* if len(ply_files) < 2: raise ValueError
TooFewClouds(fs) == Len(fs) < 2

\* merge_pro_360 up to the loop: the sorted file list, the check for two
\* clouds, the clouds read, merged_cloud = deepcopy(pcds[0]), identity
LoadClouds ==
    /\ mpc = "start"
    /\ ply_files' = Sorted(DOMAIN disk_ply)
    /\ IF TooFewClouds(ply_files')
       THEN /\ mpc' = "error"
            /\ UNCHANGED <<heap, pcds, merged_cloud, scan_i>>
       ELSE LET loaded == [k \in 1..Len(ply_files') |-> disk_ply[ply_files'[k]]] \o <<>>
                acc == DeepCopyRef(1, Len(loaded) + 1)
            IN  /\ pcds' = [k \in 1..Len(loaded) |-> k] \o <<>>
                /\ merged_cloud' = acc
                /\ heap' = Store(loaded, acc, loaded[1])
                /\ scan_i' = 1
                /\ mpc' = "loop"
    /\ max_accum_T' = Identity4
    /\ UNCHANGED <<session, captured, disk_ply, voxel_size, reg_log, out_file>>
    /\ UNCHANGED exceptMerge

\* one pass of the loop body for i = scan_i
MergeStep ==
    /\ mpc = "loop"
    /\ scan_i < Len(pcds)
    /\ LET source == pcds[scan_i + 1]
           target == pcds[scan_i]
           source_down == voxel_down_sample(heap[source], voxel_size)
           target_down == voxel_down_sample(heap[target], voxel_size)
       IN  \E fitness \in {0, 1}, T_local \in Transforms :
             LET acc_T == Accumulate(max_accum_T, T_local)
                 pcd_temp == DeepCopyRef(source, Len(heap) + 1)
                 h1 == Store(heap, pcd_temp, heap[source])
                 h2 == [h1 EXCEPT ![pcd_temp] = TransformPoints(acc_T, h1[pcd_temp])]
                 h3 == [h2 EXCEPT ![merged_cloud] = h2[merged_cloud] \o h2[pcd_temp]]
             IN  /\ reg_log' = Append(reg_log,
                        [i |-> scan_i, source |-> source, target |-> target,
                         source_down |-> source_down, target_down |-> target_down,
                         fitness |-> fitness, T_local |-> T_local])
                 /\ max_accum_T' = acc_T
                 /\ heap' = SubSeq(h3, 1, Len(heap))
    /\ scan_i' = scan_i + 1
    /\ mpc' = IF scan_i + 1 < Len(pcds) THEN "loop" ELSE "post"
    /\ UNCHANGED <<session, captured, disk_ply, voxel_size, ply_files, pcds,
                   merged_cloud, out_file>>
    /\ UNCHANGED exceptMerge

\* after the loop: downsample, statistical outlier removal (which may drop a
\* point), write_point_cloud
PostProcess ==
    /\ mpc = "post"
    /\ LET pcd_combined_down == voxel_down_sample(heap[merged_cloud], voxel_size)
       IN  \E drop \in 0..Len(pcd_combined_down) :
             out_file' = DropAt(pcd_combined_down, drop)
    /\ mpc' = "saved"
    /\ UNCHANGED <<session, captured, disk_ply, voxel_size, ply_files, heap, pcds,
                   merged_cloud, max_accum_T, scan_i, reg_log>>
    /\ UNCHANGED exceptMerge

NextMerge == LoadClouds \/ MergeStep \/ PostProcess

SpecMerge == InitMerge /\ [][NextMerge]_vars

\* the cloud read from the k-th file of the sorted list, as it is on disk
Original(k) == disk_ply[ply_files[k]]

\* T_local(1) * ... * T_local(k)
RECURSIVE ChainProduct(_)
ChainProduct(k) ==
    IF k = 0 THEN Identity4 ELSE MatMul(ChainProduct(k - 1), reg_log[k].T_local)

\* cloud 0 as it is, then clouds 1..k each moved by the product up to it
RECURSIVE ChainedClouds(_)
ChainedClouds(k) ==
    IF k = 0 THEN Original(1)
    ELSE ChainedClouds(k - 1) \o TransformPoints(ChainProduct(k), Original(k + 1))

InMerge == mpc \in {"loop", "post", "saved"}

\* C7: the accumulator starts as the identity with cloud 0 added as it is;
\* after cloud i it is T_local(1) * ... * T_local(i), and the merged cloud
\* holds the full-resolution cloud i moved by that product.
C7_AccumulatedTransform ==
    InMerge =>
        /\ max_accum_T = ChainProduct(Len(reg_log))
        /\ heap[merged_cloud] = ChainedClouds(Len(reg_log))

C7_Witness ==
    /\ mpc = "post" /\ Len(reg_log) = 2
    /\ reg_log[1].T_local = RotZ90 /\ reg_log[2].T_local = ShiftX1
    /\ max_accum_T = MatMul(RotZ90, ShiftX1)
    /\ max_accum_T # MatMul(ShiftX1, RotZ90)
    /\ Len(heap[merged_cloud]) = 8
    /\ Len(voxel_down_sample(Original(3), voxel_size)) < Len(Original(3))

\* C8: registration i pairs cloud i with cloud i-1 as read from disk, for
\* i = 1, 2, ... in order, never with the accumulated cloud, and the loaded
\* clouds stay as read.
C8_PairwiseOnOriginals ==
    InMerge =>
        /\ \A k \in 1..Len(reg_log) :
             /\ reg_log[k].i = k
             /\ reg_log[k].source = pcds[k + 1]
             /\ reg_log[k].target = pcds[k]
             /\ reg_log[k].target # merged_cloud
             /\ reg_log[k].source_down = voxel_down_sample(Original(k + 1), voxel_size)
             /\ reg_log[k].target_down = voxel_down_sample(Original(k), voxel_size)
        /\ \A k \in 1..Len(pcds) : heap[pcds[k]] = Original(k)

C8_Witness ==
    /\ mpc = "post" /\ Len(reg_log) = 2
    /\ max_accum_T \notin {Identity4, reg_log[2].T_local}
    /\ heap[merged_cloud] # Original(1)
    /\ reg_log[2].target_down = voxel_down_sample(Original(2), voxel_size)

\* C9: merge_pro_360 chains the clouds of a session in the order they were
\* captured.
C9_AcquisitionOrder == mpc \in {"loop", "post", "saved", "error"} => ply_files = captured

\* C11: with fewer than 2 clouds in the folder merge_pro_360 raises before
\* any registration and writes no output.
C11_TooFewCloudsError ==
    (Cardinality(DOMAIN disk_ply) < 2 /\ mpc \notin {"start", "off"}) =>
        /\ mpc = "error"
        /\ reg_log = <<>>
        /\ merged_cloud = 0
        /\ out_file = <<"none">>

C11_Witness ==
    /\ mpc = "error" /\ Cardinality(DOMAIN disk_ply) = 1 /\ Len(ply_files) = 1

\* C10: when a pair has no plausible registration the merge ends with an
\* error and writes nothing.
C10_RegistrationFailureFatal ==
    (mpc = "saved" \/ out_file # <<"none">>) =>
        \A k \in 1..Len(reg_log) : reg_log[k].fitness > 0

---------------------------------------------------------------------------
(* SpecCapture: capture jobs (capture_scan, capture_calibration) call      *)
(* trigger_capture frame by frame; the phone polls poll_command and        *)
(* answers a capture command with one upload; the request handlers run in  *)
(* the server's threads, interleaved with the capture thread statement by  *)
(* statement.  Time is not measured: a timed wait may give up whenever     *)
(* what it waits for has not happened.                                     *)

\* the save directories the operator picks, one per capture job, in this order
JobDirs == <<"capture_a", "capture_b">>

\* the num_poses a calibration capture may be given
PoseCounts == {1, 2}

\* The pattern list of a job is cut to this many frames.
MaxFrames == 2

JobExt(kind) == IF kind = "scan" THEN "bmp" ELSE "png"

\* os.path.join(save_dir, fname) / os.path.join(pose_dir, fname)
SavePath(j, frame) ==
    [dir |-> <<JobDirs[j.id], j.pose>>, file |-> FrameName(frame, JobExt(j.kind))]

NumFrames(kind) ==
    IF Len(Patterns(JobExt(kind))) < MaxFrames THEN Len(Patterns(JobExt(kind)))
    ELSE MaxFrames

\* trigger_capture has begun and not returned
InCall == cpc \in {"L96", "L98", "L100", "L103", "L108"}

InitCapture ==
    /\ ServerStart
    /\ GrayIdle
    /\ DecodeIdle
    /\ MergeIdle
    /\ CalibIdle
    /\ ReconIdle
    /\ RaysIdle
    /\ PresenceIdle
    /\ TableIdle
    /\ GuiIdle

\* an auto-scan sequence is between its start and its end
AutoRunning == auto_seq.i > 0

\* what capture_scan did, kept for the record of a running sequence
Recorded(outcome) ==
    IF AutoRunning THEN [auto_seq EXCEPT !.log = Append(@, outcome)] ELSE auto_seq

\* a capture job starts: capture_scan, or capture_calibration with num_poses
\* poses, from init_projector up to its first pattern on the projector
StartJob ==
    /\ cpc = "idle"
    /\ ~AutoRunning
    /\ job.id < Len(JobDirs)
    /\ \E kind \in {"scan", "calibration"}, num_poses \in PoseCounts :
         /\ kind = "scan" => num_poses = 1
         /\ job' = [id |-> job.id + 1, kind |-> kind, num_poses |-> num_poses,
                    pose |-> 1, frame |-> 1]
    /\ requested' = <<>>
    /\ projector' = "open"
    /\ cpc' = "L93"
    /\ UNCHANGED <<command, command_id, last_image_path, upload_received_event,
                   connected, elapsed, disk, ppc, polled, handled_id,
                   saved_in_call, returned, auto_seq>>
    /\ UNCHANGED exceptCapture

\* trigger_capture: upload_received_event.clear()
TriggerClear ==
    /\ cpc = "L93"
    /\ upload_received_event' = FALSE
    /\ saved_in_call' = FALSE
    /\ returned' = <<>>
    /\ cpc' = "L96"
    /\ UNCHANGED <<command, command_id, last_image_path, connected, elapsed, job,
                   disk, ppc, polled, handled_id, requested,
                   projector, auto_seq>>
    /\ UNCHANGED exceptCapture

\* trigger_capture: last_image_path = save_path
TriggerSetPath ==
    /\ cpc = "L96"
    /\ last_image_path' = SavePath(job, job.frame)
    /\ cpc' = "L98"
    /\ UNCHANGED <<command, command_id, upload_received_event, connected, elapsed,
                   job, disk, ppc, polled, handled_id, saved_in_call, returned,
                   requested, projector, auto_seq>>
    /\ UNCHANGED exceptCapture

\* trigger_capture: command_id = str(uuid.uuid4())
TriggerNewId ==
    /\ cpc = "L98"
    /\ command_id' = command_id + 1
    /\ cpc' = "L100"
    /\ UNCHANGED <<command, last_image_path, upload_received_event, connected,
                   elapsed, job, disk, ppc, polled, handled_id, saved_in_call,
                   returned, requested, projector, auto_seq>>
    /\ UNCHANGED exceptCapture

\* trigger_capture: command = "capture"
TriggerCommand ==
    /\ cpc = "L100"
    /\ command' = "capture"
    /\ requested' = Append(requested, job.frame)
    /\ cpc' = "L103"
    /\ UNCHANGED <<command_id, last_image_path, upload_received_event, connected,
                   elapsed, job, disk, ppc, polled, handled_id, saved_in_call,
                   returned, projector, auto_seq>>
    /\ UNCHANGED exceptCapture

\* upload_received_event.wait(timeout=20) returns True
WaitSignalled ==
    /\ cpc = "L103"
    /\ upload_received_event
    /\ cpc' = "L108"
    /\ UNCHANGED <<command, command_id, last_image_path, upload_received_event,
                   connected, elapsed, job, disk, ppc, polled, handled_id,
                   saved_in_call, returned, requested, projector, auto_seq>>
    /\ UNCHANGED exceptCapture

\* (mutant) a timeout only leaves the pose's frame loop
AbortPoseOnly(j) ==
    IF j.pose < j.num_poses
    THEN [cpc |-> "L93", job |-> [j EXCEPT !.pose = j.pose + 1, !.frame = 1],
          projector |-> "open"]
    ELSE [cpc |-> "idle", job |-> j, projector |-> "closed"]

\* if not self.trigger_capture(...): self.close_projector(); return
AbortJob(j) == [cpc |-> "idle", job |-> j, projector |-> "closed"]

\* the wait times out: trigger_capture returns False and the job returns
WaitTimeout ==
    /\ cpc = "L103"
    /\ ~upload_received_event
    /\ returned' = << [path |-> SavePath(job, job.frame), result |-> FALSE,
                       saved |-> saved_in_call] >>
    /\ saved_in_call' = FALSE
    /\ LET after == AbortJob(job)
       IN  /\ cpc' = after.cpc
           /\ job' = after.job
           /\ projector' = after.projector
           /\ auto_seq' = IF after.cpc = "idle" THEN Recorded("timeout") ELSE auto_seq
    /\ UNCHANGED <<command, command_id, last_image_path, upload_received_event,
                   connected, elapsed, disk, ppc, polled, handled_id,
                   requested>>
    /\ UNCHANGED exceptCapture

\* command = "idle"; return True; the caller's loops move to the next frame,
\* the next pose, or the end of the job (close_projector and return)
TriggerIdle ==
    /\ cpc = "L108"
    /\ command' = "idle"
    /\ returned' = << [path |-> SavePath(job, job.frame), result |-> TRUE,
                       saved |-> saved_in_call] >>
    /\ IF job.frame < NumFrames(job.kind)
       THEN /\ job' = [job EXCEPT !.frame = job.frame + 1]
            /\ cpc' = "L93"
            /\ UNCHANGED <<requested, projector, auto_seq>>
       ELSE IF job.pose < job.num_poses
       THEN /\ job' = [job EXCEPT !.pose = job.pose + 1, !.frame = 1]
            /\ cpc' = "L93"
            /\ requested' = <<>>
            /\ UNCHANGED <<projector, auto_seq>>
       ELSE /\ cpc' = "idle"
            /\ projector' = "closed"
            /\ auto_seq' = Recorded("complete")
            /\ UNCHANGED <<job, requested>>
    /\ saved_in_call' = FALSE
    /\ UNCHANGED <<command_id, last_image_path, upload_received_event, connected,
                   elapsed, disk, ppc, polled, handled_id>>
    /\ UNCHANGED exceptCapture

\* poll_command: connected / last_seen, then the response's "action"
PollReadAction ==
    /\ ppc = "idle"
    /\ connected' = (elapsed \/ connected)
    /\ elapsed' = FALSE
    /\ polled' = command
    /\ ppc' = "L45"
    /\ UNCHANGED <<command, command_id, last_image_path, upload_received_event,
                   cpc, job, disk, handled_id, saved_in_call, returned, requested,
                   projector, auto_seq>>
    /\ UNCHANGED exceptCapture

\* poll_command: the response's "id"; the phone answers a capture command it
\* has not answered yet by posting a picture to /upload
PollReadId ==
    /\ ppc = "L45"
    /\ polled' = "none"
    /\ IF polled = "capture" /\ command_id # handled_id
       THEN /\ handled_id' = command_id
            /\ ppc' = "L65"
       ELSE /\ ppc' = "idle"
            /\ UNCHANGED handled_id
    /\ UNCHANGED <<command, command_id, last_image_path, upload_received_event,
                   connected, elapsed, cpc, job, disk, saved_in_call, returned,
                   requested, projector, auto_seq>>
    /\ UNCHANGED exceptCapture

\* upload_file: if SERVER_STATE["last_image_path"]
UploadCheck ==
    /\ ppc = "L65"
    /\ ppc' = IF last_image_path = <<>> THEN "idle" ELSE "L70"
    /\ UNCHANGED <<command, command_id, last_image_path, upload_received_event,
                   connected, elapsed, cpc, job, disk, polled, handled_id,
                   saved_in_call, returned, requested, projector, auto_seq>>
    /\ UNCHANGED exceptCapture

\* upload_file: file.save(SERVER_STATE["last_image_path"])
UploadSave ==
    /\ ppc = "L70"
    /\ disk' = disk \cup {last_image_path}
    /\ saved_in_call' =
         (saved_in_call \/ (InCall /\ last_image_path = SavePath(job, job.frame)))
    /\ ppc' = "L76"
    /\ UNCHANGED <<command, command_id, last_image_path, upload_received_event,
                   connected, elapsed, cpc, job, polled, handled_id, returned,
                   requested, projector, auto_seq>>
    /\ UNCHANGED exceptCapture

\* upload_file: upload_received_event.set(); return "Success"
UploadSignal ==
    /\ ppc = "L76"
    /\ upload_received_event' = TRUE
    /\ ppc' = "idle"
    /\ UNCHANGED <<command, command_id, last_image_path, connected, elapsed, cpc,
                   job, disk, polled, handled_id, saved_in_call, returned,
                   requested, projector, auto_seq>>
    /\ UNCHANGED exceptCapture

\* five seconds go by without a poll
TimePasses ==
    /\ ~elapsed
    /\ elapsed' = TRUE
    /\ UNCHANGED <<command, command_id, last_image_path, upload_received_event,
                   connected, cpc, job, disk, ppc, polled, handled_id,
                   saved_in_call, returned, requested, projector, auto_seq>>
    /\ UNCHANGED exceptCapture

\* monitor_disconnect: one pass of the loop that finds the phone gone
MonitorDisconnect ==
    /\ connected
    /\ elapsed
    /\ connected' = FALSE
    /\ UNCHANGED <<command, command_id, last_image_path, upload_received_event,
                   elapsed, cpc, job, disk, ppc, polled, handled_id,
                   saved_in_call, returned, requested, projector, auto_seq>>
    /\ UNCHANGED exceptCapture

\* do_auto_scan_sequence with `turns` turns, up to the first pattern of the
\* first capture_scan(sub_path, silent=True)
AutoScanStart ==
    /\ cpc = "idle"
    /\ ~AutoRunning
    /\ job.id < Len(JobDirs)
    /\ \E turns \in 1..(Len(JobDirs) - job.id) :
         auto_seq' = [turns |-> turns, i |-> 1, log |-> <<>>]
    /\ job' = [id |-> job.id + 1, kind |-> "scan", num_poses |-> 1,
               pose |-> 1, frame |-> 1]
    /\ requested' = <<>>
    /\ projector' = "open"
    /\ cpc' = "L93"
    /\ UNCHANGED <<command, command_id, last_image_path, upload_received_event,
                   connected, elapsed, disk, ppc, polled, handled_id,
                   saved_in_call, returned>>
    /\ UNCHANGED exceptCapture

\* run_thread after capture_scan has returned without an exception: rotate
\* the turntable and start the next turn's capture_scan, or finish
AutoNextTurn ==
    /\ AutoRunning
    /\ cpc = "idle"
    /\ IF auto_seq.i < auto_seq.turns
       THEN /\ auto_seq' = [auto_seq EXCEPT !.i = auto_seq.i + 1,
                                            !.log = Append(@, "rotate")]
            /\ job' = [id |-> job.id + 1, kind |-> "scan", num_poses |-> 1,
                       pose |-> 1, frame |-> 1]
            /\ requested' = <<>>
            /\ projector' = "open"
            /\ cpc' = "L93"
       ELSE /\ auto_seq' = [auto_seq EXCEPT !.i = 0]
            /\ UNCHANGED <<job, requested, projector, cpc>>
    /\ UNCHANGED <<command, command_id, last_image_path, upload_received_event,
                   connected, elapsed, disk, ppc, polled, handled_id,
                   saved_in_call, returned>>
    /\ UNCHANGED exceptCapture

NextCapture ==
    \/ StartJob \/ TriggerClear \/ TriggerSetPath \/ TriggerNewId
    \/ TriggerCommand \/ WaitSignalled \/ WaitTimeout \/ TriggerIdle
    \/ PollReadAction \/ PollReadId \/ UploadCheck \/ UploadSave \/ UploadSignal
    \/ TimePasses \/ MonitorDisconnect
    \/ AutoScanStart \/ AutoNextTurn

SpecCapture == InitCapture /\ [][NextCapture]_vars

\* C1: within a job (one capture_scan, one pose of capture_calibration) the
\* frames are requested as 1, 2, 3, ... with none skipped, and frame N+1 is
\* requested only once frame N's image is on disk.
C1_FramesInSequence ==
    /\ requested = [k \in 1..Len(requested) |-> k]
    /\ \A k \in 2..Len(requested) : SavePath(job, k - 1) \in disk

\* C2: trigger_capture returns True only if an upload was saved at its
\* save_path while the call was running (so it returns False when none came).
C2_TrueOnlyIfSaved ==
    returned # <<>> =>
        (returned[1].result => returned[1].saved /\ returned[1].path \in disk)


\* C16: once trigger_capture has returned False for a frame, the job it
\* belongs to is over: the capture thread is idle, the projector is closed,
\* the failed frame is the last one requested and no file of a later pose of
\* that job is on disk.
C16_TimeoutFatal ==
    (returned # <<>> /\ ~returned[1].result
        /\ returned[1].path.dir[1] = JobDirs[job.id]) =>
        /\ cpc = "idle"
        /\ projector = "closed"
        /\ returned[1].path = SavePath(job, job.frame)
        /\ requested # <<>> /\ requested[Len(requested)] = job.frame
        /\ \A f \in disk : f.dir[1] = JobDirs[job.id] => f.dir[2] <= job.pose

C16_Witness ==
    /\ returned # <<>> /\ ~returned[1].result
    /\ job.kind = "calibration" /\ job.num_poses = 2 /\ job.pose = 1
    /\ job.frame = 2
    /\ returned[1].path = SavePath(job, 2)
    /\ SavePath(job, 1) \in disk
    /\ cpc = "idle"

\* C17: in an auto-scan sequence nothing follows a capture_scan that timed
\* out: no rotation and no further scan.
C17_TimeoutStopsSequence ==
    \A k \in 1..Len(auto_seq.log) :
        auto_seq.log[k] = "timeout" => k = Len(auto_seq.log)


\* the command id of the trigger_capture call that set last_image_path: the
\* id in force, or the one about to be drawn when the path is already set
IssuedFor == IF cpc = "L98" THEN command_id + 1 ELSE command_id

\* C21: whenever upload_file stores an image, the upload answers the
\* capture command issued for the pattern whose path it is stored at.
C21_UploadMatchesCommand ==
    [][(ppc = "L70" /\ ppc' = "L76") => handled_id = IssuedFor]_vars

\* C23: while no trigger_capture call is in progress the command the phone
\* is given is "idle".
C23_IdleBetweenCalls ==
    cpc \in {"idle", "L93"} => command = "idle"

---------------------------------------------------------------------------
(* SpecCalib: a folder of captured calibration poses goes through          *)
(* analyze_calibration, the operator's pose selection and calibrate_final. *)

\* Largest number of pose folders in the calibration directory.
MaxPoseDirs == 4

\* what a pose folder may hold: 01.png readable or not, chessboard found in
\* it or not, all frames of the pattern list or one short
PoseKinds ==
    { [white |-> TRUE, board |-> TRUE, n_files |-> Len(CalibPatterns)],
      [white |-> TRUE, board |-> FALSE, n_files |-> Len(CalibPatterns)],
      [white |-> TRUE, board |-> TRUE, n_files |-> Len(CalibPatterns) - 1],
      [white |-> FALSE, board |-> FALSE, n_files |-> Len(CalibPatterns) - 1] }

\* what the operator may type: 'all', or distinct pose numbers (none: the
\* prompt is cancelled)
UserInputs ==
    {[all |-> TRUE, picks |-> <<>>]} \cup
    { [all |-> FALSE, picks |-> s] :
        s \in { t \in UNION {[1..m -> 1..MaxPoseDirs] : m \in 0..MaxPoseDirs} :
                  \A i, j \in DOMAIN t : i # j => t[i] # t[j] } }

\* sorted([d for d in os.listdir(input_dir) if os.path.isdir(...)])
ListPoses(dir) == [k \in 1..Len(dir) |-> k] \o <<>>

\* if len(files) - 2 < 2 * (n_col_bits + n_row_bits): skip
NotEnoughImages(n_files) ==
    n_files - 2 < 2 * (CeilLog2(SCREEN_WIDTH) + CeilLog2(SCREEN_HEIGHT))

\* (mutant) the result of findChessboardCorners is not looked at
PoseKeptIgnoringBoard(dir, p) ==
    /\ p \in DOMAIN dir
    /\ dir[p].white
    /\ ~NotEnoughImages(dir[p].n_files)

\* the loop body of load_calib_data reaches its appends for pose p
PoseKept(dir, p) ==
    /\ p \in DOMAIN dir
    /\ dir[p].white
    /\ dir[p].board
    /\ ~NotEnoughImages(dir[p].n_files)

\* load_calib_data(base_dir, pose_list), from the k-th pose on
RECURSIVE LoadFrom(_, _, _, _)
LoadFrom(dir, poses, k, acc) ==
    IF k > Len(poses) THEN acc
    ELSE IF PoseKept(dir, poses[k])
    THEN LoadFrom(dir, poses, k + 1,
            [obj_pts |-> Append(acc.obj_pts, "objp"),
             cam_pts |-> Append(acc.cam_pts, <<"corners2", poses[k]>>),
             proj_pts |-> Append(acc.proj_pts, <<"proj_pts_pose", poses[k]>>),
             valid_poses |-> Append(acc.valid_poses, poses[k])])
    ELSE LoadFrom(dir, poses, k + 1, acc)

load_calib_data(dir, poses) ==
    LoadFrom(dir, poses, 1,
        [obj_pts |-> <<>>, cam_pts |-> <<>>, proj_pts |-> <<>>, valid_poses |-> <<>>])

\* cv2.calibrateCamera / cv2.stereoCalibrate raise on an empty list of views
\* and accept any other number of views
CalibrateRaises(data) == Len(data.obj_pts) = 0

\* the if / else of prompt_pose_selection that builds selected_poses
SelectPoses(input, available) ==
    IF input.all THEN available
    ELSE SelectSeq(input.picks,
                   LAMBDA idx : \E k \in 1..Len(available) : available[k] = idx)

InitCalib ==
    /\ \E k \in 0..MaxPoseDirs : calib_dir \in [1..k -> PoseKinds]
    /\ available_poses = <<>>
    /\ user_input = [all |-> FALSE, picks |-> <<>>]
    /\ selected_poses = <<>>
    /\ pose_list = <<>>
    /\ calib_data = [obj_pts |-> <<>>, cam_pts |-> <<>>, proj_pts |-> <<>>,
                     valid_poses |-> <<>>]
    /\ calib_file = <<"none">>
    /\ kpc = "start"
    /\ GrayIdle
    /\ DecodeIdle
    /\ MergeIdle
    /\ ServerStart
    /\ ReconIdle
    /\ RaysIdle
    /\ PresenceIdle
    /\ TableIdle
    /\ GuiIdle

\* run_calib_analysis: analyze_calibration with compute_reprojection_errors
AnalyzeCalibration ==
    /\ kpc = "start"
    /\ available_poses' = ListPoses(calib_dir)
    /\ IF Len(available_poses') < 3
       THEN /\ kpc' = "error"
            /\ UNCHANGED <<pose_list, calib_data>>
       ELSE /\ pose_list' = available_poses'
            /\ calib_data' = load_calib_data(calib_dir, available_poses')
            /\ kpc' = IF CalibrateRaises(calib_data') THEN "error" ELSE "analyzed"
    /\ UNCHANGED <<calib_dir, user_input, selected_poses, calib_file>>
    /\ UNCHANGED exceptCalib

\* prompt_pose_selection: the operator's answer and the poses it selects
PromptPoseSelection ==
    /\ kpc = "analyzed"
    /\ \E input \in UserInputs :
         /\ user_input' = input
         /\ IF ~input.all /\ input.picks = <<>>
            THEN /\ kpc' = "cancelled"
                 /\ UNCHANGED selected_poses
            ELSE /\ selected_poses' = SelectPoses(input, available_poses)
                 /\ kpc' = "selected"
    /\ UNCHANGED <<calib_dir, available_poses, pose_list, calib_data, calib_file>>
    /\ UNCHANGED exceptCalib

\* run_calib_final: calibrate_final on the selected poses
CalibrateFinal ==
    /\ kpc = "selected"
    /\ pose_list' = selected_poses
    /\ calib_data' = load_calib_data(calib_dir, selected_poses)
    /\ IF CalibrateRaises(calib_data')
       THEN /\ kpc' = "error"
            /\ UNCHANGED calib_file
       ELSE /\ calib_file' = [poses |-> calib_data'.valid_poses]
            /\ kpc' = "saved"
    /\ UNCHANGED <<calib_dir, available_poses, user_input, selected_poses>>
    /\ UNCHANGED exceptCalib

NextCalib == AnalyzeCalibration \/ PromptPoseSelection \/ CalibrateFinal

SpecCalib == InitCalib /\ [][NextCalib]_vars

\* a pose whose white frame is readable, whose chessboard was detected and
\* whose frames are complete
UsablePose(p) ==
    /\ p \in DOMAIN calib_dir
    /\ calib_dir[p].white /\ calib_dir[p].board
    /\ calib_dir[p].n_files >= Len(CalibPatterns)

UsableOf(poses) == SelectSeq(poses, UsablePose)

\* C12: a calibration run that got through analysis, or that wrote the
\* artifact, had at least 3 usable poses to work with.
C12_ThreeUsablePoses ==
    /\ kpc = "analyzed" => Len(UsableOf(available_poses)) >= 3
    /\ kpc = "saved" => Len(UsableOf(selected_poses)) >= 3

\* C13: load_calib_data returns one entry per usable pose of its pose list,
\* in the order of that list, in each of its four lists, and nothing for a
\* pose that is not usable.
C13_ExcludedPosesSkipped ==
    kpc \in {"analyzed", "saved", "error"} =>
        LET usable == UsableOf(pose_list)
        IN  /\ calib_data.valid_poses = usable
            /\ Len(calib_data.obj_pts) = Len(usable)
            /\ calib_data.cam_pts = [k \in 1..Len(usable) |-> <<"corners2", usable[k]>>]
            /\ calib_data.proj_pts = [k \in 1..Len(usable) |-> <<"proj_pts_pose", usable[k]>>]

C13_Witness ==
    /\ kpc = "saved"
    /\ pose_list = <<4, 1, 3, 2>>
    /\ ~calib_dir[1].board /\ calib_dir[1].white
    /\ calib_data.valid_poses = <<4, 2>>

---------------------------------------------------------------------------
(* SpecRecon: calibrate_final's geometry is written to the .mat file, a    *)
(* scan is decoded (validity mask; the maps themselves are decode_sequence *)
(* of SpecDecode and come in as data), triangulated and written as PLY.    *)
(* Ray components are integers in units of 1e-7; a point Oc + ray * t is   *)
(* kept as its parts, t as a fraction.                                     *)

\* Largest number of camera pixels of a scan image.
MaxPixels == 3

\* 1e-6, the tolerance of valid_intersect, in units of 1e-7
DenomTol == 10

\* 1.0 in units of 1e-7
RayUnit == DenomTol * 1000000

\* cameras a calibration may come out with: focal length and principal point
CamChoices ==
    { [fx |-> 1000000, cx |-> 0], [fx |-> 2000000, cx |-> 1], [fx |-> 100, cx |-> 0] }

\* what a camera pixel may show: grey level in the white and the black frame,
\* colour in the white frame, decoded projector column
PixelChoices ==
    { [white |-> 200, black |-> 20, bgr |-> <<10, 20, 30>>, col |-> 0],
      [white |-> 250, black |-> 0, bgr |-> <<250, 240, 230>>, col |-> 1919],
      [white |-> 50, black |-> 39, bgr |-> <<50, 51, 52>>, col |-> 1920],
      [white |-> 240, black |-> 30, bgr |-> <<40, 41, 42>>, col |-> 2047],
      [white |-> 30, black |-> 25, bgr |-> <<1, 2, 3>>, col |-> 1000] }

\* M.T
Transpose(M) ==
    [j \in 1..Len(M[1]) |-> [i \in 1..Len(M) |-> M[i][j]] \o <<>>] \o <<>>

\* the ray through pixel x of the image row: ((x - cx) / fx, (0 - cy) / fy, 1)
\* with cy = 0
RayFromK(K, x) == << ((x - K.cx) * RayUnit) \div K.fx, 0, RayUnit >>

\* calibrate_final's Nc, one ray per pixel of the calibration image
CameraRays(K, w) == [i \in 1..w |-> RayFromK(K, i - 1)] \o <<>>

\* get_plane_from_proj_line for the projector of the calibration: the plane
\* x = u_p + 1 for a column, y = u_p + 1 for a row
get_plane_from_proj_line(u_p, is_col) ==
    IF is_col THEN <<1, 0, 0, 0 - (u_p + 1)>> ELSE <<0, 1, 0, 0 - (u_p + 1)>>

\* wPlaneCol and wPlaneRow as calibrate_final fills them, one row per line
wPlaneCol == [c \in 1..SCREEN_WIDTH |-> get_plane_from_proj_line(c - 1, TRUE)] \o <<>>
wPlaneRow == [r \in 1..SCREEN_HEIGHT |-> get_plane_from_proj_line(r - 1, FALSE)] \o <<>>

wPlaneColT == Transpose(wPlaneCol)
wPlaneRowT == Transpose(wPlaneRow)

\* the dictionary handed to scipy.io.savemat
SavedFields(K) ==
    [Nc |-> CameraRays(K, K.w), Oc |-> <<0, 0, 0>>,
     wPlaneCol |-> wPlaneColT, wPlaneRow |-> wPlaneRowT,
     cam_K |-> [fx |-> K.fx, cx |-> K.cx], proj_K |-> "K2", R |-> "R", T |-> "T"]

\* the fields generate_cloud and process_multi_ply copy out of the file
ReadFields == {"Nc", "Oc", "wPlaneCol", "wPlaneRow", "cam_K"}

\* (mutant) the stored layout is used as it is
PlaneRowsAsStored(M) == M

\* if wPlaneCol.shape[0] == 4: wPlaneCol = wPlaneCol.T
PlaneRows(M) == IF Len(M) = 4 THEN Transpose(M) ELSE M

InitRecon ==
    /\ pipeline \in {"sl_system", "processing"}
    /\ \E m \in 1..MaxPixels :
         /\ scan \in [1..m -> PixelChoices]
         /\ \E K \in CamChoices, w \in {m, m + 1} :
              cam = [fx |-> K.fx, cx |-> K.cx, w |-> w]
    /\ mat_file = <<>>
    /\ calib = <<>>
    /\ valid_mask = <<>>
    /\ c_map = <<>>
    /\ texture = <<>>
    /\ plane_idx = <<>>
    /\ point_px = <<>>
    /\ points = <<>>
    /\ colors = <<>>
    /\ ply_file = <<"none">>
    /\ rpc = "start"
    /\ GrayIdle
    /\ DecodeIdle
    /\ MergeIdle
    /\ ServerStart
    /\ CalibIdle
    /\ RaysIdle
    /\ PresenceIdle
    /\ TableIdle
    /\ GuiIdle

\* calibrate_final from the stereo result on: rays, planes, savemat
SaveCalibration ==
    /\ rpc = "start"
    /\ mat_file' = SavedFields(cam)
    /\ rpc' = "calibrated"
    /\ UNCHANGED <<pipeline, cam, scan, calib, valid_mask, c_map, texture, plane_idx,
                   point_px, points, colors, ply_file>>
    /\ UNCHANGED exceptRecon

\* generate_cloud / process_multi_ply: loadmat and the calib_data dictionary;
\* a missing file or a missing field is an error
LoadCalibration ==
    /\ rpc \in {"start", "calibrated"}
    /\ IF DOMAIN mat_file = {}
       THEN /\ rpc' = "error"
            /\ UNCHANGED calib
       ELSE IF ~(ReadFields \subseteq DOMAIN mat_file)
       THEN /\ rpc' = "error"
            /\ UNCHANGED calib
       ELSE /\ calib' = [f \in ReadFields |-> mat_file[f]]
            /\ rpc' = "loaded"
    /\ UNCHANGED <<pipeline, cam, scan, mat_file, valid_mask, c_map, texture,
                   plane_idx, point_px, points, colors, ply_file>>
    /\ UNCHANGED exceptRecon

\* the fixed thresholds of _gray_decode
SHADOW_FLOOR == 40
CONTRAST_FLOOR == 10

Indices(m) == [i \in 1..m |-> i] \o <<>>

RECURSIVE MaxOf(_, _)
MaxOf(vals, k) ==
    IF k = 1 THEN vals[1]
    ELSE IF vals[k] > MaxOf(vals, k - 1) THEN vals[k] ELSE MaxOf(vals, k - 1)

\* 20 * np.percentile(vals, 95): linear interpolation between the two order
\* statistics around position 0.95 * (n - 1)
Percentile95x20(vals) ==
    LET sorted == SortSeq(vals, LAMBDA a, b : a < b)
        pos20 == 19 * (Len(vals) - 1)
        lo == (pos20 \div 20) + 1
        hi == IF lo < Len(vals) THEN lo + 1 ELSE lo
    IN  20 * sorted[lo] + (pos20 % 20) * (sorted[hi] - sorted[lo])

\* sl_system gray_decode: white > noise_floor * 1.5 and
\* contrast > dynamic_range * 0.05
MaskAdaptive(img, i) ==
    LET img_black == [k \in 1..Len(img) |-> img[k].black]
        contrast == [k \in 1..Len(img) |-> img[k].white - img[k].black]
    IN  /\ 40 * img[i].white > 3 * Percentile95x20(img_black)
        /\ 20 * contrast[i] > MaxOf(contrast, Len(img))

\* processing _gray_decode: white > 40 and white - black > 10
MaskFixed(img, i) ==
    /\ img[i].white > SHADOW_FLOOR
    /\ img[i].white - img[i].black > CONTRAST_FLOOR

\* gray_decode / _gray_decode: the validity mask, and the maps and texture
\* handed on
DecodeScan ==
    /\ rpc = "loaded"
    /\ valid_mask' = [i \in 1..Len(scan) |->
                        IF pipeline = "sl_system" THEN MaskAdaptive(scan, i)
                        ELSE MaskFixed(scan, i)] \o <<>>
    /\ c_map' = [i \in 1..Len(scan) |-> scan[i].col] \o <<>>
    /\ texture' = [i \in 1..Len(scan) |-> scan[i].bgr] \o <<>>
    /\ rpc' = "decoded"
    /\ UNCHANGED <<pipeline, cam, scan, mat_file, calib, plane_idx, point_px, points,
                   colors, ply_file>>
    /\ UNCHANGED exceptRecon

\* (mutant) the decoded column used as the index
ClipNone(x, lo, hi) == x

\* np.clip(x, lo, hi)
Clip(x, lo, hi) == IF x < lo THEN lo ELSE IF x > hi THEN hi ELSE x

Dot3(a, b) == a[1] * b[1] + a[2] * b[2] + a[3] * b[3]

Abs(x) == IF x < 0 THEN 0 - x ELSE x

\* (mutant) only an exactly parallel ray is rejected
IntersectableNonzero(denom) == denom # 0

\* np.abs(denom) > 1e-6
Intersectable(denom) == Abs(denom) > DenomTol

\* rays: Nc[:, valid_indices] when Nc has one ray per pixel of the scan
\* image, else rebuilt from cam_K
RayOf(cal, m, i) ==
    IF Len(cal.Nc) = m THEN cal.Nc[i] ELSE RayFromK(cal.cam_K, i - 1)

\* proj_cols after np.clip, for a plane table of n_planes rows
ProjCol(n_planes, cols, i) == Clip(cols[i], 0, n_planes - 1)

\* wPlaneCol[idx, :], a negative idx counting from the end
PlaneAt(table, idx) == IF idx < 0 THEN table[Len(table) + idx + 1] ELSE table[idx + 1]

\* denom = np.sum(N * rays, axis=0) at pixel i
DenomAt(cal, table, cols, m, i) ==
    Dot3(PlaneAt(table, ProjCol(Len(table), cols, i)), RayOf(cal, m, i))

\* P = Oc + ray * t with t = -numer / denom, numer = N . Oc + d
PointAt(cal, table, cols, m, i) ==
    LET plane == PlaneAt(table, ProjCol(Len(table), cols, i))
        ray == RayOf(cal, m, i)
        denom == Dot3(plane, ray)
        numer == Dot3(plane, cal.Oc) + plane[4]
    IN  [Oc |-> cal.Oc, ray |-> ray, t_num |-> 0 - numer, t_den |-> denom]

\* reconstruct_point_cloud / _reconstruct_point_cloud; an index outside the
\* plane table is numpy's IndexError
Reconstruct ==
    /\ rpc = "decoded"
    /\ \E table \in {PlaneRows(calib.wPlaneCol)} :
       LET m == Len(c_map)
           n_planes == Len(table)
           valid_indices == SelectSeq(Indices(m), LAMBDA i : valid_mask[i])
           proj_cols == [k \in 1..Len(valid_indices) |->
                           ProjCol(n_planes, c_map, valid_indices[k])] \o <<>>
       IN  /\ plane_idx' = proj_cols
           /\ IF \E k \in 1..Len(proj_cols) :
                    proj_cols[k] >= n_planes \/ proj_cols[k] < 0 - n_planes
              THEN /\ rpc' = "error"
                   /\ UNCHANGED <<point_px, points, colors>>
              ELSE LET kept == SelectSeq(valid_indices,
                                 LAMBDA i : Intersectable(DenomAt(calib, table, c_map, m, i)))
                   IN  /\ point_px' = kept
                       /\ points' = [k \in 1..Len(kept) |->
                                       PointAt(calib, table, c_map, m, kept[k])] \o <<>>
                       /\ colors' = [k \in 1..Len(kept) |-> texture[kept[k]]] \o <<>>
                       /\ rpc' = "reconstructed"
    /\ UNCHANGED <<pipeline, cam, scan, mat_file, calib, valid_mask, c_map, texture,
                   ply_file>>
    /\ UNCHANGED exceptRecon

\* (mutant) the colour written in the texture's own channel order
PlyColourAsStored(c) == <<c[1], c[2], c[3]>>

\* {c[2]} {c[1]} {c[0]}
PlyColour(c) == <<c[3], c[2], c[1]>>

\* one line of the file body for point p with colour c: the coordinates
\* (their rendering with 4 decimals is not worked out), then the colour
PlyLine(p, c) == <<p, p, p>> \o PlyColour(c)

\* the header lines after "ply" and "format ascii 1.0"
PlyHeader(count) ==
    [format |-> "ascii 1.0", vertex |-> count,
     properties |-> << <<"float", "x">>, <<"float", "y">>, <<"float", "z">>,
                       <<"uchar", "red">>, <<"uchar", "green">>, <<"uchar", "blue">> >>]

\* generate_cloud's file writing / _save_ply
SavePly ==
    /\ rpc = "reconstructed"
    /\ ply_file' = [header |-> PlyHeader(Len(points)),
                    body |-> [k \in 1..Len(points) |-> PlyLine(points[k], colors[k])] \o <<>>]
    /\ rpc' = "saved"
    /\ UNCHANGED <<pipeline, cam, scan, mat_file, calib, valid_mask, c_map, texture,
                   plane_idx, point_px, points, colors>>
    /\ UNCHANGED exceptRecon

NextRecon == SaveCalibration \/ LoadCalibration \/ DecodeScan \/ Reconstruct \/ SavePly

SpecRecon == InitRecon /\ [][NextRecon]_vars


\* the plane calibrate_final computed for the column decoded at pixel i
CalibratedPlaneOf(i) ==
    get_plane_from_proj_line(Clip(c_map[i], 0, SCREEN_WIDTH - 1), TRUE)

\* C14: reconstruct returns one point for each pixel that is valid in the
\* mask and has |N.ray| > 1e-6, in pixel order, none for any other pixel,
\* as many colours as points, and raises nothing.
C14_OnePointPerIntersectablePixel ==
    /\ rpc = "error" => DOMAIN calib = {}
    /\ rpc \in {"reconstructed", "saved"} =>
         LET m == Len(scan)
         IN  /\ point_px = SelectSeq(Indices(m),
                    LAMBDA i : valid_mask[i]
                               /\ Abs(Dot3(CalibratedPlaneOf(i), RayOf(calib, m, i)))
                                    > DenomTol)
             /\ Len(points) = Len(point_px)
             /\ Len(colors) = Len(points)

C14_Witness ==
    /\ rpc = "reconstructed"
    /\ valid_mask = <<FALSE, TRUE, TRUE>>
    /\ cam.fx = 1000000
    /\ Abs(DenomAt(calib, PlaneRows(calib.wPlaneCol), c_map, 3, 2)) = DenomTol
    /\ point_px = <<3>>

\* C15: every index used to look up the column planes is within
\* 0 .. number of planes - 1, whatever column value was decoded.
C15_PlaneIndexInRange ==
    rpc \in {"reconstructed", "saved", "error"} =>
        \A k \in 1..Len(plane_idx) :
            plane_idx[k] >= 0 /\ plane_idx[k] <= SCREEN_WIDTH - 1

C15_Witness ==
    /\ rpc = "reconstructed"
    /\ \E i \in 1..Len(c_map) : valid_mask[i] /\ c_map[i] = 2047
    /\ \E k \in 1..Len(plane_idx) : plane_idx[k] = SCREEN_WIDTH - 1

\* C18: every field read from the calibration file was written by
\* calibrate_final, and after save and load the plane looked up for column c
\* is the plane computed for column c (stored 4 x N, read back as N rows),
\* so that every point is the intersection with its own column's plane.
C18_ArtifactRoundTrip ==
    /\ rpc = "loaded" =>
        \A table \in {PlaneRows(calib.wPlaneCol)} :
            /\ ReadFields \subseteq DOMAIN mat_file
            /\ Len(mat_file.wPlaneCol) = 4
            /\ Len(table) = SCREEN_WIDTH
            /\ \A c \in 0..(SCREEN_WIDTH - 1) :
                 PlaneAt(table, c) = get_plane_from_proj_line(c, TRUE)
            /\ calib.Nc = CameraRays(cam, cam.w)
            /\ calib.cam_K = [fx |-> cam.fx, cx |-> cam.cx]
    /\ rpc \in {"reconstructed", "saved"} =>
        \A k \in 1..Len(points) :
            LET plane == CalibratedPlaneOf(point_px[k])
            IN  /\ points[k].t_num = 0 - (Dot3(plane, calib.Oc) + plane[4])
                /\ points[k].t_den = Dot3(plane, points[k].ray)

C18_Witness ==
    /\ rpc = "reconstructed"
    /\ Len(mat_file.wPlaneCol) = 4
    /\ \E k \in 1..Len(points) :
         c_map[point_px[k]] = 1919 /\ points[k].t_num = 1920

\* C19: the file's header declares as many vertices as point lines follow
\* and the properties x, y, z, red, green, blue; each line carries the
\* point's colour as texture channel 2, 1, 0.
C19_PlyHeaderAndColour ==
    rpc = "saved" =>
        /\ ply_file.header.vertex = Len(ply_file.body)
        /\ Len(ply_file.body) = Len(point_px)
        /\ [k \in 1..6 |-> ply_file.header.properties[k][2]] =
               <<"x", "y", "z", "red", "green", "blue">>
        /\ \A k \in 1..Len(ply_file.body) :
             /\ ply_file.body[k][4] = texture[point_px[k]][3]
             /\ ply_file.body[k][5] = texture[point_px[k]][2]
             /\ ply_file.body[k][6] = texture[point_px[k]][1]

C19_Witness ==
    /\ rpc = "saved"
    /\ Len(ply_file.body) = 2
    /\ ply_file.body[1][4] = 30 /\ ply_file.body[1][6] = 10

\* C20: on either decode path a pixel is valid only if its white level is
\* above the brightness floor (40, or 1.5 times the 95th percentile of the
\* black frame) and its white-minus-black contrast is above 5% of the
\* largest contrast in the image.
C20_ValidityMask ==
    rpc \in {"decoded", "reconstructed", "saved"} =>
        LET contrast == [k \in 1..Len(scan) |-> scan[k].white - scan[k].black]
            img_black == [k \in 1..Len(scan) |-> scan[k].black]
        IN  \A i \in 1..Len(scan) :
              valid_mask[i] =>
                /\ IF pipeline = "processing" THEN scan[i].white > SHADOW_FLOOR
                   ELSE 40 * scan[i].white > 3 * Percentile95x20(img_black)
                /\ 20 * contrast[i] > MaxOf(contrast, Len(scan))

---------------------------------------------------------------------------
(* SpecRays: calibrate_final computes one ray per pixel of the calibration *)
(* image and reconstruct picks the rays of a scan's valid pixels.          *)

\* Largest width and height of an image.
MaxDim == 2

RayIntrinsics == {[fx |-> 1000, fy |-> 1000, cx |-> 0, cy |-> 0],
                  [fx |-> 1200, fy |-> 1100, cx |-> 1, cy |-> 1]}

\* (mutant) the two dimensions taken the other way round
UnpackShapeFlipped(shp) == [w |-> shp[2], h |-> shp[1]]

\* w, h = shape
UnpackShape(shp) == [w |-> shp[1], h |-> shp[2]]

\* u, v = np.meshgrid(np.arange(w), np.arange(h)): two h x w arrays
Meshgrid(w, h) ==
    [u |-> [y \in 1..h |-> [x \in 1..w |-> x - 1]],
     v |-> [y \in 1..h |-> [x \in 1..w |-> y - 1]]]

\* the ray ((u - cx) / fx, (v - cy) / fy, 1) before the division by its
\* norm, kept as its numerators and denominators
PixelRay(K, u_px, v_px) == [x_num |-> u_px - K.cx, x_den |-> K.fx,
                            y_num |-> v_px - K.cy, y_den |-> K.fy]

\* a.reshape(-1) / a.flatten() of an array of h rows: row after row
RECURSIVE Flatten(_)
Flatten(a) == IF a = <<>> THEN <<>> ELSE Head(a) \o Flatten(Tail(a))

\* np.where(mask_flat)[0]: the 0-based indices of the set entries
WhereTrue(flat) ==
    LET at == SelectSeq([i \in 1..Len(flat) |-> i], LAMBDA i : flat[i])
    IN  [k \in 1..Len(at) |-> at[k] - 1]

\* np.unravel_index(idx, (h, w))
UnravelIndex(idx, w) == [y |-> idx \div w, x |-> idx % w]

InitRays ==
    /\ \E w \in 1..MaxDim, h \in 1..MaxDim : img_shape = <<w, h>>
    /\ ray_K \in RayIntrinsics
    /\ \E sw \in 1..MaxDim, sh \in 1..MaxDim :
         scan_mask \in [1..sh -> [1..sw -> BOOLEAN]]
    /\ ray_Nc = <<>>
    /\ rays = <<>>
    /\ ypc = "start"
    /\ GrayIdle
    /\ DecodeIdle
    /\ MergeIdle
    /\ ServerStart
    /\ CalibIdle
    /\ ReconIdle
    /\ PresenceIdle
    /\ TableIdle
    /\ GuiIdle

\* calibrate_final: Nc = rays.reshape(-1, 3).T
ComputeRays ==
    /\ ypc = "start"
    /\ LET dims == UnpackShape(img_shape)
           grid == Meshgrid(dims.w, dims.h)
           stack == [y \in 1..dims.h |->
                       [x \in 1..dims.w |->
                          PixelRay(ray_K, grid.u[y][x], grid.v[y][x])]]
       IN  ray_Nc' = Flatten(stack)
    /\ ypc' = "calibrated"
    /\ UNCHANGED <<img_shape, ray_K, scan_mask, rays>>
    /\ UNCHANGED exceptRays

\* reconstruct_point_cloud: the rays of the valid pixels, from Nc when it
\* has h * w columns and from cam_K otherwise
TakeRays ==
    /\ ypc = "calibrated"
    /\ LET h == Len(scan_mask)
           w == Len(scan_mask[1])
           valid_indices == WhereTrue(Flatten(scan_mask))
       IN  rays' = IF Len(ray_Nc) = h * w
                   THEN [k \in 1..Len(valid_indices) |-> ray_Nc[valid_indices[k] + 1]]
                   ELSE [k \in 1..Len(valid_indices) |->
                           LET at == UnravelIndex(valid_indices[k], w)
                           IN  PixelRay(ray_K, at.x, at.y)]
    /\ ypc' = "reconstructed"
    /\ UNCHANGED <<img_shape, ray_K, ray_Nc, scan_mask>>
    /\ UNCHANGED exceptRays

NextRays == ComputeRays \/ TakeRays

SpecRays == InitRays /\ [][NextRays]_vars

\* the valid pixels <<y, x>> of the scan, row after row
ValidPixels ==
    LET h == Len(scan_mask)
        w == Len(scan_mask[1])
        all == [i \in 1..(h * w) |-> <<(i - 1) \div w, (i - 1) % w>>]
    IN  SelectSeq(all, LAMBDA p : scan_mask[p[1] + 1][p[2] + 1])

\* the scan image has the width and height of the calibration image
SameResolution ==
    Len(scan_mask[1]) = img_shape[1] /\ Len(scan_mask) = img_shape[2]

\* C25: when the scan has the calibration resolution, the ray taken for the
\* valid pixel at row y and column x is the ray calibrate_final computed
\* for u = x, v = y.
C25_RayOfPixel ==
    (ypc = "reconstructed" /\ SameResolution) =>
        /\ Len(rays) = Len(ValidPixels)
        /\ \A k \in 1..Len(rays) :
             rays[k] = PixelRay(ray_K, ValidPixels[k][2], ValidPixels[k][1])

C25_Witness ==
    /\ ypc = "reconstructed"
    /\ img_shape = <<2, 1>>
    /\ scan_mask = << <<FALSE, TRUE>> >>
    /\ Len(ray_Nc) = 2
    /\ rays = << PixelRay(ray_K, 1, 0) >>

---------------------------------------------------------------------------
(* SpecPresence: the request handler of poll_command and the thread of     *)
(* monitor_disconnect, statement by statement, on SERVER_STATE's connected *)
(* and last_seen.                                                          *)

\* Seconds of clock time explored after the server has started.
MaxTime == 7

\* the 5.0 of poll_command and monitor_disconnect
PRESENCE_TIMEOUT == 5

\* t - SERVER_STATE["last_seen"] > 5.0
IsStale(t, last_seen) == t - last_seen > PRESENCE_TIMEOUT

InitPresence ==
    /\ clock = PRESENCE_TIMEOUT + 1
    /\ presence = [connected |-> FALSE, last_seen |-> 0]
    /\ poll_thread = [pc |-> "idle", current_time |-> 0]
    /\ monitor_pc = "L84"
    /\ GrayIdle
    /\ DecodeIdle
    /\ MergeIdle
    /\ ServerStart
    /\ CalibIdle
    /\ ReconIdle
    /\ RaysIdle
    /\ TableIdle
    /\ GuiIdle

\* a second goes by
Tick ==
    /\ clock < PRESENCE_TIMEOUT + 1 + MaxTime
    /\ clock' = clock + 1
    /\ UNCHANGED <<presence, poll_thread, monitor_pc>>
    /\ UNCHANGED exceptPresence

\* poll_command: current_time = time.time()
PollArrives ==
    /\ poll_thread.pc = "idle"
    /\ poll_thread' = [pc |-> "L33", current_time |-> clock]
    /\ UNCHANGED <<clock, presence, monitor_pc>>
    /\ UNCHANGED exceptPresence

\* poll_command: if current_time - SERVER_STATE["last_seen"] > 5.0
PollTest ==
    /\ poll_thread.pc = "L33"
    /\ poll_thread' = [poll_thread EXCEPT !.pc =
                          IF IsStale(poll_thread.current_time, presence.last_seen)
                          THEN "L37" ELSE "L40"]
    /\ UNCHANGED <<clock, presence, monitor_pc>>
    /\ UNCHANGED exceptPresence

\* poll_command: SERVER_STATE["connected"] = True
PollConnect ==
    /\ poll_thread.pc = "L37"
    /\ presence' = [presence EXCEPT !.connected = TRUE]
    /\ poll_thread' = [poll_thread EXCEPT !.pc = "L40"]
    /\ UNCHANGED <<clock, monitor_pc>>
    /\ UNCHANGED exceptPresence

\* poll_command: SERVER_STATE["last_seen"] = current_time; return jsonify(...)
PollSeen ==
    /\ poll_thread.pc = "L40"
    /\ presence' = [presence EXCEPT !.last_seen = poll_thread.current_time]
    /\ poll_thread' = [poll_thread EXCEPT !.pc = "idle"]
    /\ UNCHANGED <<clock, monitor_pc>>
    /\ UNCHANGED exceptPresence

\* monitor_disconnect: time.sleep(2) is over
MonitorWakes ==
    /\ monitor_pc = "L84"
    /\ monitor_pc' = "L87"
    /\ UNCHANGED <<clock, presence, poll_thread>>
    /\ UNCHANGED exceptPresence

\* monitor_disconnect: if SERVER_STATE["connected"]
MonitorTestConnected ==
    /\ monitor_pc = "L87"
    /\ monitor_pc' = IF presence.connected THEN "L89" ELSE "L84"
    /\ UNCHANGED <<clock, presence, poll_thread>>
    /\ UNCHANGED exceptPresence

\* monitor_disconnect: if time.time() - SERVER_STATE["last_seen"] > 5.0
MonitorTestSeen ==
    /\ monitor_pc = "L89"
    /\ monitor_pc' = IF IsStale(clock, presence.last_seen) THEN "L93" ELSE "L84"
    /\ UNCHANGED <<clock, presence, poll_thread>>
    /\ UNCHANGED exceptPresence

\* monitor_disconnect: SERVER_STATE["connected"] = False
MonitorClear ==
    /\ monitor_pc = "L93"
    /\ presence' = [presence EXCEPT !.connected = FALSE]
    /\ monitor_pc' = "L84"
    /\ UNCHANGED <<clock, poll_thread>>
    /\ UNCHANGED exceptPresence

NextPresence ==
    \/ Tick \/ PollArrives \/ PollTest \/ PollConnect \/ PollSeen
    \/ MonitorWakes \/ MonitorTestConnected \/ MonitorTestSeen \/ MonitorClear

SpecPresence == InitPresence /\ [][NextPresence]_vars

\* C29: once a poll has finished and the monitor is asleep, and the last
\* poll is no more than 5 s old, the phone is marked connected.
C29_ConnectedWhilePolling ==
    (poll_thread.pc = "idle" /\ monitor_pc = "L84"
        /\ presence.last_seen > 0
        /\ ~IsStale(clock, presence.last_seen)) => presence.connected

---------------------------------------------------------------------------
(* SpecTurntable: the loop of do_auto_scan_sequence.run_thread, with       *)
(* ArduinoController.rotate and wait_for_done and the board that turns the *)
(* table and reports DONE. capture_scan is one step from start to return.  *)

\* Largest number of turns of a sequence.
MaxTableTurns == 4

\* (mutant) the table is moved after the last scan as well
MoveFollowsEveryScan(i, turns) == i < turns

\* if i < turns - 1
MoveFollows(i, turns) == i < turns - 1

InitTurntable ==
    /\ ser \in BOOLEAN
    /\ \E turns \in 1..MaxTableTurns :
         run_thread = [turns |-> turns, i |-> 0, pc |-> "start"]
    /\ in_buffer = <<>>
    /\ turntable = <<>>
    /\ rotations = 0
    /\ last_wait = [result |-> FALSE, line |-> 0]
    /\ tt_log = <<>>
    /\ GrayIdle
    /\ DecodeIdle
    /\ MergeIdle
    /\ ServerStart
    /\ CalibIdle
    /\ ReconIdle
    /\ RaysIdle
    /\ PresenceIdle
    /\ GuiIdle

\* run_thread: the loop body up to the call of capture_scan(sub_path, silent=True)
BeginScan ==
    /\ run_thread.pc = "start"
    /\ run_thread' = [run_thread EXCEPT !.pc = "scan"]
    /\ tt_log' = Append(tt_log, <<"scan", run_thread.i>>)
    /\ UNCHANGED <<ser, in_buffer, turntable, rotations, last_wait>>
    /\ UNCHANGED exceptTable

\* capture_scan returns (all frames taken, or a timeout); then the test
\* whether to move, and whether a board is there to move
EndScan ==
    /\ run_thread.pc = "scan"
    /\ tt_log' = Append(tt_log, <<"scan_end", run_thread.i>>)
    /\ run_thread' = [run_thread EXCEPT !.pc =
                         IF MoveFollows(run_thread.i, run_thread.turns)
                         THEN (IF ser THEN "rotate" ELSE "sleep")
                         ELSE "done"]
    /\ UNCHANGED <<ser, in_buffer, turntable, rotations, last_wait>>
    /\ UNCHANGED exceptTable

\* self.arduino.rotate(deg): the command is written to the port, or the
\* write raises and rotate returns False; run_thread does not look
Rotate ==
    /\ run_thread.pc = "rotate"
    /\ \E written \in BOOLEAN :
         IF written
         THEN /\ rotations' = rotations + 1
              /\ turntable' = Append(turntable, rotations + 1)
         ELSE UNCHANGED <<rotations, turntable>>
    /\ tt_log' = Append(tt_log, <<"rotate", run_thread.i>>)
    /\ run_thread' = [run_thread EXCEPT !.pc = "wait"]
    /\ UNCHANGED <<ser, in_buffer, last_wait>>
    /\ UNCHANGED exceptTable

\* wait_for_done(timeout=10): a line is in the buffer, it holds DONE:
\* return True; then time.sleep(0.5) and the next turn
WaitReadsDone ==
    /\ run_thread.pc = "wait"
    /\ in_buffer # <<>>
    /\ last_wait' = [result |-> TRUE, line |-> Head(in_buffer)]
    /\ in_buffer' = Tail(in_buffer)
    /\ tt_log' = Append(tt_log, <<"waited", run_thread.i>>)
    /\ run_thread' = [run_thread EXCEPT !.pc = "start", !.i = run_thread.i + 1]
    /\ UNCHANGED <<ser, turntable, rotations>>
    /\ UNCHANGED exceptTable

\* wait_for_done(timeout=10): nothing arrived in 10 s: return False, a
\* warning is printed; then time.sleep(0.5) and the next turn
WaitTimesOut ==
    /\ run_thread.pc = "wait"
    /\ in_buffer = <<>>
    /\ last_wait' = [result |-> FALSE, line |-> 0]
    /\ tt_log' = Append(tt_log, <<"waited", run_thread.i>>)
    /\ run_thread' = [run_thread EXCEPT !.pc = "start", !.i = run_thread.i + 1]
    /\ UNCHANGED <<ser, in_buffer, turntable, rotations>>
    /\ UNCHANGED exceptTable

\* no board: time.sleep(2), and the next turn
SimulationPause ==
    /\ run_thread.pc = "sleep"
    /\ tt_log' = Append(tt_log, <<"sleep", run_thread.i>>)
    /\ run_thread' = [run_thread EXCEPT !.pc = "start", !.i = run_thread.i + 1]
    /\ UNCHANGED <<ser, in_buffer, turntable, rotations, last_wait>>
    /\ UNCHANGED exceptTable

\* the board finishes its oldest rotation and sends DONE
BoardDone ==
    /\ turntable # <<>>
    /\ in_buffer' = Append(in_buffer, Head(turntable))
    /\ turntable' = Tail(turntable)
    /\ UNCHANGED <<ser, run_thread, rotations, last_wait, tt_log>>
    /\ UNCHANGED exceptTable

NextTurntable ==
    \/ BeginScan \/ EndScan \/ Rotate \/ WaitReadsDone \/ WaitTimesOut
    \/ SimulationPause \/ BoardDone

SpecTurntable == InitTurntable /\ [][NextTurntable]_vars

\* what run_thread does from turn i on when no step fails: scan i, then the
\* move to the next angle (rotate and wait with a board, a pause without)
RECURSIVE ExpectedFrom(_, _, _)
ExpectedFrom(i, turns, board) ==
    IF i >= turns THEN <<>>
    ELSE << <<"scan", i>>, <<"scan_end", i>> >>
         \o (IF i >= turns - 1 THEN <<>>
             ELSE IF board THEN << <<"rotate", i>>, <<"waited", i>> >>
             ELSE << <<"sleep", i>> >>)
         \o ExpectedFrom(i + 1, turns, board)

IsPrefix(a, b) == Len(a) <= Len(b) /\ a = SubSeq(b, 1, Len(a))

CountOf(name) == Cardinality({k \in 1..Len(tt_log) : tt_log[k][1] = name})

C28_DoneIsCurrent ==
    (run_thread.pc \in {"start", "scan"} /\ last_wait.result) =>
        /\ last_wait.line = rotations
        /\ turntable = <<>>

---------------------------------------------------------------------------
(* SpecGui: the button handlers of ScannerGUI that start long-running jobs *)
(* and the worker threads they start. Every handler runs on the Tk main    *)
(* thread from entry to return; a worker thread runs concurrently with the *)
(* handlers and with the other workers. The capture workers call           *)
(* trigger_capture once per frame and share SERVER_STATE with the phone.   *)

\* Largest number of button presses in one run; each button is pressed at
\* most once.
MaxClicks == 3

\* Number of frames one capture job requests.
GuiFrames == 2

\* targets of the threads that issue capture requests
CaptureTargets == {"capture_calibration", "capture_scan", "run_thread"}

\* targets of the threads that only compute
ComputeTargets ==
    {"run_calib_analysis", "run_calib_final", "process_multi_ply", "merge_pro_360"}

ThreadTargets == CaptureTargets \cup ComputeTargets

NoPath == <<>>

InitGui ==
    /\ GrayIdle /\ DecodeIdle /\ MergeIdle /\ ServerStart /\ CalibIdle
    /\ ReconIdle /\ RaysIdle /\ PresenceIdle /\ TableIdle
    /\ gui_fields \in [merge : BOOLEAN, mpcp_calib : {"", "missing", "file"},
                       mpcp_input : BOOLEAN, tt_output : BOOLEAN]
    /\ gui_clicks = 0
    /\ workers = [t \in ThreadTargets |-> [pc |-> "none", frame |-> 0]]
    /\ after_queue = {}
    /\ shown = {}
    /\ started_jobs = {}
    /\ shared_state = [command |-> "idle", command_id |-> 0, last_image_path |-> NoPath]
    /\ shared_event = FALSE
    /\ answered = 0

\* a button that has not been pressed yet is pressed
Pressed(button) ==
    /\ gui_clicks < MaxClicks
    /\ button \notin shown
    /\ gui_clicks' = gui_clicks + 1

\* threading.Thread(target=..., daemon=True).start()
ThreadStart(target) ==
    [workers EXCEPT ![target] = [pc |-> "run", frame |-> 1]]

\* do_calib_capture: starts capture_calibration, whatever else is running
DoCalibCapture ==
    /\ Pressed("do_calib_capture")
    /\ workers' = ThreadStart("capture_calibration")
    /\ started_jobs' = started_jobs \cup {"capture_calibration"}
    /\ shown' = shown \cup {"do_calib_capture"}
    /\ UNCHANGED <<gui_fields, after_queue, shared_state, shared_event, answered>>
    /\ UNCHANGED exceptGui

\* do_scan_capture: starts capture_scan, whatever else is running
DoScanCapture ==
    /\ Pressed("do_scan_capture")
    /\ workers' = ThreadStart("capture_scan")
    /\ started_jobs' = started_jobs \cup {"capture_scan"}
    /\ shown' = shown \cup {"do_scan_capture"}
    /\ UNCHANGED <<gui_fields, after_queue, shared_state, shared_event, answered>>
    /\ UNCHANGED exceptGui

\* do_auto_scan_sequence: the operator confirms the simulation or the port
\* is open (go_on), the output settings are checked, run_thread is started
DoAutoScanSequence ==
    /\ Pressed("do_auto_scan_sequence")
    /\ \E go_on \in BOOLEAN :
         IF ~go_on
         THEN /\ shown' = shown \cup {"do_auto_scan_sequence"}
              /\ UNCHANGED <<workers, started_jobs>>
         ELSE IF ~gui_fields.tt_output
         THEN /\ shown' = shown \cup {"do_auto_scan_sequence", "Check Output settings"}
              /\ UNCHANGED <<workers, started_jobs>>
         ELSE /\ workers' = ThreadStart("run_thread")
              /\ started_jobs' = started_jobs \cup {"run_thread"}
              /\ shown' = shown \cup {"do_auto_scan_sequence"}
    /\ UNCHANGED <<gui_fields, after_queue, shared_state, shared_event, answered>>
    /\ UNCHANGED exceptGui

\* do_calib_compute: askdirectory is answered (in_dir) or cancelled
DoCalibCompute ==
    /\ Pressed("do_calib_compute")
    /\ \E in_dir \in BOOLEAN :
         IF ~in_dir
         THEN UNCHANGED <<workers, started_jobs>>
         ELSE /\ workers' = ThreadStart("run_calib_analysis")
              /\ started_jobs' = started_jobs \cup {"run_calib_analysis"}
    /\ shown' = shown \cup {"do_calib_compute"}
    /\ UNCHANGED <<gui_fields, after_queue, shared_state, shared_event, answered>>
    /\ UNCHANGED exceptGui

\* run_calib_analysis on its thread: analyze_calibration returns and the
\* pose prompt is queued for the main thread, or it raises and the error
\* dialog is queued
RunCalibAnalysis ==
    /\ workers["run_calib_analysis"].pc = "run"
    /\ \E raised \in BOOLEAN :
         after_queue' = after_queue \cup
             {IF raised THEN "Calib Error" ELSE "prompt_pose_selection"}
    /\ workers' = [workers EXCEPT !["run_calib_analysis"].pc = "finished"]
    /\ UNCHANGED <<gui_fields, gui_clicks, shown, started_jobs, shared_state,
                   shared_event, answered>>
    /\ UNCHANGED exceptGui

\* prompt_pose_selection on the main thread: the operator enters the poses
\* to use (poses_given) or cancels
PosePromptAnswered ==
    /\ "prompt_pose_selection" \in after_queue
    /\ after_queue' = after_queue \ {"prompt_pose_selection"}
    /\ \E poses_given \in BOOLEAN :
         IF ~poses_given
         THEN UNCHANGED <<workers, started_jobs>>
         ELSE /\ workers' = ThreadStart("run_calib_final")
              /\ started_jobs' = started_jobs \cup {"run_calib_final"}
    /\ UNCHANGED <<gui_fields, gui_clicks, shown, shared_state, shared_event, answered>>
    /\ UNCHANGED exceptGui

\* a queued messagebox is shown by the main thread
ShowQueued ==
    /\ \E box \in after_queue \ {"prompt_pose_selection"} :
         /\ after_queue' = after_queue \ {box}
         /\ shown' = shown \cup {box}
    /\ UNCHANGED <<gui_fields, gui_clicks, workers, started_jobs, shared_state,
                   shared_event, answered>>
    /\ UNCHANGED exceptGui

\* do_multi_pcp: both inputs selected, the calibration file exists, then
\* the thread is started
DoMultiPcp ==
    /\ Pressed("do_multi_pcp")
    /\ IF gui_fields.mpcp_calib = "" \/ ~gui_fields.mpcp_input
       THEN /\ shown' = shown \cup {"do_multi_pcp", "select both"}
            /\ UNCHANGED <<workers, started_jobs>>
       ELSE IF gui_fields.mpcp_calib = "missing"
       THEN /\ shown' = shown \cup {"do_multi_pcp", "Calibration file not found."}
            /\ UNCHANGED <<workers, started_jobs>>
       ELSE /\ workers' = ThreadStart("process_multi_ply")
            /\ started_jobs' = started_jobs \cup {"process_multi_ply"}
            /\ shown' = shown \cup {"do_multi_pcp"}
    /\ UNCHANGED <<gui_fields, after_queue, shared_state, shared_event, answered>>
    /\ UNCHANGED exceptGui

\* do_merge_360: reads merge_voxel, then tests the names in_dir and
\* out_file, which the function never assigns: NameError, and the handler
\* ends before the thread is created
DoMerge360 ==
    /\ Pressed("do_merge_360")
    /\ shown' = shown \cup {"do_merge_360", "NameError"}
    /\ started_jobs' = IF gui_fields.merge
                       THEN started_jobs \cup {"merge_pro_360"}
                       ELSE started_jobs
    /\ UNCHANGED <<gui_fields, workers, after_queue, shared_state, shared_event, answered>>
    /\ UNCHANGED exceptGui

\* a compute thread other than run_calib_analysis runs to its end and
\* queues its messagebox
ComputeRuns ==
    /\ \E t \in ComputeTargets \ {"run_calib_analysis"} :
         /\ workers[t].pc = "run"
         /\ workers' = [workers EXCEPT ![t].pc = "finished"]
         /\ \E raised \in BOOLEAN :
              after_queue' = after_queue \cup
                  {IF raised THEN "Error" ELSE "Done"}
    /\ UNCHANGED <<gui_fields, gui_clicks, shown, started_jobs, shared_state,
                   shared_event, answered>>
    /\ UNCHANGED exceptGui

\* trigger_capture up to the wait: clears the event, sets the path, a fresh
\* command id and the command
WorkerTrigger ==
    /\ \E t \in CaptureTargets :
         /\ workers[t].pc = "run"
         /\ shared_event' = FALSE
         /\ shared_state' = [command |-> "capture",
                             command_id |-> shared_state.command_id + 1,
                             last_image_path |-> <<t, workers[t].frame>>]
         /\ workers' = [workers EXCEPT ![t].pc = "wait"]
    /\ UNCHANGED <<gui_fields, gui_clicks, after_queue, shown, started_jobs, answered>>
    /\ UNCHANGED exceptGui

\* the phone polls, sees a capture command it has not answered and uploads:
\* upload_file saves to last_image_path and sets the event
PhoneUploads ==
    /\ shared_state.command = "capture"
    /\ shared_state.command_id # answered
    /\ shared_state.last_image_path # NoPath
    /\ answered' = shared_state.command_id
    /\ shared_event' = TRUE
    /\ UNCHANGED <<gui_fields, gui_clicks, workers, after_queue, shown, started_jobs,
                   shared_state>>
    /\ UNCHANGED exceptGui

\* the wait of trigger_capture returns: with the event set the command goes
\* back to idle and the job goes on to its next frame or ends; without it
\* the wait has timed out and the job gives up
WorkerWaitReturns ==
    /\ \E t \in CaptureTargets :
         /\ workers[t].pc = "wait"
         /\ IF shared_event
            THEN /\ shared_state' = [shared_state EXCEPT !.command = "idle"]
                 /\ workers' = [workers EXCEPT ![t] =
                        IF workers[t].frame < GuiFrames
                        THEN [pc |-> "run", frame |-> workers[t].frame + 1]
                        ELSE [pc |-> "finished", frame |-> workers[t].frame]]
            ELSE /\ workers' = [workers EXCEPT ![t].pc = "finished"]
                 /\ UNCHANGED shared_state
    /\ UNCHANGED <<gui_fields, gui_clicks, after_queue, shown, started_jobs,
                   shared_event, answered>>
    /\ UNCHANGED exceptGui

NextGui ==
    \/ DoCalibCapture \/ DoScanCapture \/ DoAutoScanSequence
    \/ DoCalibCompute \/ RunCalibAnalysis \/ PosePromptAnswered \/ ShowQueued
    \/ DoMultiPcp \/ DoMerge360 \/ ComputeRuns
    \/ WorkerTrigger \/ PhoneUploads \/ WorkerWaitReturns

SpecGui == InitGui /\ [][NextGui]_vars

\* C22: while a capture job waits in trigger_capture, the path in
\* SERVER_STATE is the one that job set and no other capture job is running.
C22_OneCaptureJob ==
    \A t \in CaptureTargets :
        workers[t].pc = "wait" =>
            /\ shared_state.last_image_path = <<t, workers[t].frame>>
            /\ \A u \in CaptureTargets \ {t} : workers[u].pc \notin {"run", "wait"}

\* C30: every job whose handler has run with the job's inputs selected has
\* a worker thread running or finished; the 360 merge among them.
C30_StartedJobsRun ==
    \A j \in started_jobs : workers[j].pc # "none"

===========================================================================
